---------------------------- MODULE Spec2Model ----------------------------
(***************************************************************************)
(* Verification model of the reporting pipeline in src/backend:            *)
(*   services/powerpoint_service.py  slide table building and aggregation  *)
(*   services/agent.py               analysis / edit orchestration         *)
(*   models.py                       SlideFieldSelection                    *)
(***************************************************************************)
EXTENDS Integers, Sequences, FiniteSets, TLC

(***************************************************************************)
(* Bounds of the model.                                                    *)
(***************************************************************************)
MaxDataRows == 2
MaxSlideRows == 2
MaxEdits == 2
MaxConnects == 2

(***************************************************************************)
(* Python / pandas values.                                                 *)
(*   Num(n)  the number n as a cell or a filter value                      *)
(*   NULL    an empty CSV cell (NaN once loaded by pd.read_csv)            *)
(*   NONE    Python None (dict.get of a missing key)                       *)
(*   NoKey / NoKeyStr   a key the dict does not hold                       *)
(*   a number is [kind, num, den]: kind "int" (numpy int64), "float"       *)
(*   (numpy float64, the exact rational num/den) or "nan".                 *)
(***************************************************************************)
Num(n) == [tag |-> "num", v |-> n]
NULL == [tag |-> "nan", v |-> 0]
NONE == [tag |-> "none", v |-> 0]
NoKey == [tag |-> "nokey", v |-> 0]
NoneStr == "<None>"
NoKeyStr == "<no key>"

IntVal(n) == [kind |-> "int", num |-> n, den |-> 1]
FloatVal(n, d) == [kind |-> "float", num |-> n, den |-> d]
NaNVal == [kind |-> "nan", num |-> 0, den |-> 1]

Abs(n) == IF n < 0 THEN -n ELSE n

\* second, computed once first has its value: one statement after another
After(first, second) == IF first = first THEN second ELSE second

RECURSIVE SumSeq(_)
SumSeq(s) == IF s = <<>> THEN 0 ELSE Head(s) + SumSeq(Tail(s))

RECURSIVE SelectSeqIdx(_, _, _)
SelectSeqIdx(s, keep, i) ==
    IF i > Len(s) THEN <<>>
    ELSE (IF keep[i] THEN <<s[i]>> ELSE <<>>) \o SelectSeqIdx(s, keep, i + 1)

MaxOf(S) == CHOOSE x \in S : \A y \in S : y <= x
MinOf(S) == CHOOSE x \in S : \A y \in S : x <= y

(***************************************************************************)
(* The loaded dataset (pd.read_csv): columns and rows.  A column read from *)
(* CSV is int64 when no cell is empty and float64 otherwise.               *)
(***************************************************************************)
FilterColumn == "LoB_masked"
MetricColumn == "CaseReserves"
DataColumns == {FilterColumn, MetricColumn}

LoBValues == {Num(1), Num(2)}
CellValues == {NULL, Num(-1000), Num(1000)}

DataRow == [LoB_masked : LoBValues, CaseReserves : CellValues]

RECURSIVE SeqsUpTo(_, _)
SeqsUpTo(S, n) ==
    IF n = 0 THEN {<<>>}
    ELSE LET shorter == SeqsUpTo(S, n - 1)
         IN  shorter \cup {Append(s, x) : s \in {t \in shorter : Len(t) = n - 1}, x \in S}

\* No reading of the dataset depends on the order of its rows (the boolean-mask
\* selection keeps it, the reductions ignore it), so the datasets are taken
\* with their rows in one fixed order.
RowRank(r) ==
    3 * r.LoB_masked.v
        + (IF r.CaseReserves = NULL THEN 0 ELSE IF r.CaseReserves.v < 0 THEN 1 ELSE 2)

DataFrames ==
    [columns : {DataColumns},
     rows : {s \in SeqsUpTo(DataRow, MaxDataRows) :
                \A i \in 1..(Len(s) - 1) : RowRank(s[i]) <= RowRank(s[i + 1])}]

ColumnIsFloat(df, col) == \E i \in 1..Len(df.rows) : df.rows[i][col] = NULL

(***************************************************************************)
(* One filter_condition dict of SlideFieldSelection.filters.               *)
(***************************************************************************)
Filter(f, op, v) == [field |-> f, operator |-> op, value |-> v]

\* dict.get(key) / dict.get(key, default), for string and for scalar entries
DictGetStr(d, key, default) == IF d[key] = NoKeyStr THEN default ELSE d[key]

DictGetVal(d, key, default) == IF d[key] = NoKey THEN default ELSE d[key]

\* series <op> value, elementwise (pandas): NaN compares False except under !=;
\* == None is all False, != None all True; an ordering against None raises.
CompareRaises(operator, value) ==
    value = NONE /\ operator \in {">", "<", ">=", "<="}

\* A variant of the comparison in which >= and <= leave out equal values.
CompareCellStrict(cell, operator, value) ==
    IF cell = NULL \/ value = NONE THEN operator = "!="
    ELSE CASE operator = "==" -> cell.v = value.v
           [] operator = "!=" -> cell.v # value.v
           [] operator = ">"  -> cell.v > value.v
           [] operator = "<"  -> cell.v < value.v
           [] operator = ">=" -> cell.v > value.v
           [] operator = "<=" -> cell.v < value.v

CompareCell(cell, operator, value) ==
    IF cell = NULL \/ value = NONE THEN operator = "!="
    ELSE CASE operator = "==" -> cell.v = value.v
           [] operator = "!=" -> cell.v # value.v
           [] operator = ">"  -> cell.v > value.v
           [] operator = "<"  -> cell.v < value.v
           [] operator = ">=" -> cell.v >= value.v
           [] operator = "<=" -> cell.v <= value.v

\* A variant of the loop body in which a filter on a field the dataset lacks
\* keeps no row, instead of being skipped.
ApplyFilterAbsentKeepsNothing(df, filter_condition) ==
    LET field_name == DictGetStr(filter_condition, "field", NoneStr)
        operator == DictGetStr(filter_condition, "operator", "==")
        value == DictGetVal(filter_condition, "value", NONE)
    IN  IF field_name # NoneStr /\ field_name \in df.columns
           /\ operator \in {"==", "!=", ">", "<", ">=", "<="}
        THEN [df EXCEPT !.rows =
                SelectSeqIdx(df.rows,
                             [i \in 1..Len(df.rows) |->
                                 CompareCell(df.rows[i][field_name], operator, value)],
                             1)]
        ELSE IF field_name \notin df.columns THEN [df EXCEPT !.rows = <<>>]
        ELSE df

\* One iteration of the loop over filters: the rows kept by filter_condition.
ApplyFilter(df, filter_condition) ==
    LET field_name == DictGetStr(filter_condition, "field", NoneStr)
        operator == DictGetStr(filter_condition, "operator", "==")
        value == DictGetVal(filter_condition, "value", NONE)
    IN  IF field_name # NoneStr /\ field_name \in df.columns
           /\ operator \in {"==", "!=", ">", "<", ">=", "<="}
        THEN [df EXCEPT !.rows =
                SelectSeqIdx(df.rows,
                             [i \in 1..Len(df.rows) |->
                                 CompareCell(df.rows[i][field_name], operator, value)],
                             1)]
        ELSE df

FilterRaises(df, filter_condition) ==
    LET field_name == DictGetStr(filter_condition, "field", NoneStr)
        operator == DictGetStr(filter_condition, "operator", "==")
        value == DictGetVal(filter_condition, "value", NONE)
    IN  /\ field_name # NoneStr
        /\ field_name \in df.columns
        /\ CompareRaises(operator, value)

RECURSIVE ApplyFilters(_, _)
ApplyFilters(df, filters) ==
    IF filters = <<>> THEN df
    ELSE ApplyFilters(ApplyFilter(df, Head(filters)), Tail(filters))

RECURSIVE FiltersRaise(_, _)
FiltersRaise(df, filters) ==
    IF filters = <<>> THEN FALSE
    ELSE \/ FilterRaises(df, Head(filters))
         \/ FiltersRaise(ApplyFilter(df, Head(filters)), Tail(filters))

(***************************************************************************)
(* pandas Series reductions over filtered_df[metric_field] (NaN skipped).  *)
(***************************************************************************)
NonNull(df, col) ==
    LET cells == [i \in 1..Len(df.rows) |-> df.rows[i][col]]
        kept == SelectSeqIdx(cells, [i \in 1..Len(cells) |-> cells[i] # NULL], 1)
    IN  [i \in 1..Len(kept) |-> kept[i].v]

Range(s) == {s[i] : i \in 1..Len(s)}

SeriesSum(vals, isFloat) ==
    IF isFloat THEN FloatVal(SumSeq(vals), 1) ELSE IntVal(SumSeq(vals))

SeriesMean(vals) ==
    IF vals = <<>> THEN NaNVal ELSE FloatVal(SumSeq(vals), Len(vals))

SeriesCount(vals) == IntVal(Len(vals))

SeriesMax(vals, isFloat) ==
    IF vals = <<>> THEN NaNVal
    ELSE IF isFloat THEN FloatVal(MaxOf(Range(vals)), 1) ELSE IntVal(MaxOf(Range(vals)))

SeriesMin(vals, isFloat) ==
    IF vals = <<>> THEN NaNVal
    ELSE IF isFloat THEN FloatVal(MinOf(Range(vals)), 1) ELSE IntVal(MinOf(Range(vals)))

\* PowerPointService._calculate_metric_value_with_filters
calculate_metric_value_with_filters(data_df, metric_field, aggregation, filters) ==
    IF FiltersRaise(data_df, filters) THEN IntVal(0)
    ELSE LET filtered_df == ApplyFilters(data_df, filters)
         IN  IF metric_field \notin filtered_df.columns THEN IntVal(0)
             ELSE LET vals == NonNull(filtered_df, metric_field)
                      isFloat == ColumnIsFloat(data_df, metric_field)
                  IN  CASE aggregation = "sum" -> SeriesSum(vals, isFloat)
                        [] aggregation \in {"average", "mean"} -> SeriesMean(vals)
                        [] aggregation = "count" -> SeriesCount(vals)
                        [] aggregation = "max" -> SeriesMax(vals, isFloat)
                        [] aggregation = "min" -> SeriesMin(vals, isFloat)
                        [] OTHER -> SeriesSum(vals, isFloat)

(***************************************************************************)
(* Strings.  Chars spells every field name and keyword of the model, so    *)
(* that str.lower(), "in" (substring), replace() and title() are computed  *)
(* on characters.                                                          *)
(***************************************************************************)
Chars(str) ==
    CASE str = "CaseReserves" -> <<"C", "a", "s", "e", "R", "e", "s", "e", "r", "v", "e", "s">>
      [] str = "LoB_masked" -> <<"L", "o", "B", "_", "m", "a", "s", "k", "e", "d">>
      [] str = "ActuarialIBNR" -> <<"A", "c", "t", "u", "a", "r", "i", "a", "l", "I", "B", "N", "R">>
      [] str = "PaidLossandALAE" -> <<"P", "a", "i", "d", "L", "o", "s", "s", "a", "n", "d", "A", "L", "A", "E">>
      [] str = "ULAE" -> <<"U", "L", "A", "E">>
      [] str = "NonCatLosses" -> <<"N", "o", "n", "C", "a", "t", "L", "o", "s", "s", "e", "s">>
      [] str = "ChangeInReservesForPolicyholderDividends" -> <<"C", "h", "a", "n", "g", "e", "I", "n", "R", "e", "s", "e", "r", "v", "e", "s", "F", "o", "r", "P", "o", "l", "i", "c", "y", "h", "o", "l", "d", "e", "r", "D", "i", "v", "i", "d", "e", "n", "d", "s">>
      [] str = "LargeLosses1" -> <<"L", "a", "r", "g", "e", "L", "o", "s", "s", "e", "s", "1">>
      [] str = "LossRatio" -> <<"L", "o", "s", "s", "R", "a", "t", "i", "o">>
      [] str = "PolicyCount" -> <<"P", "o", "l", "i", "c", "y", "C", "o", "u", "n", "t">>
      [] str = "Region" -> <<"R", "e", "g", "i", "o", "n">>
      [] str = "actualincurred" -> <<"a", "c", "t", "u", "a", "l", "i", "n", "c", "u", "r", "r", "e", "d">>
      [] str = "nominalreserves" -> <<"n", "o", "m", "i", "n", "a", "l", "r", "e", "s", "e", "r", "v", "e", "s">>
      [] str = "discountedreserves" -> <<"d", "i", "s", "c", "o", "u", "n", "t", "e", "d", "r", "e", "s", "e", "r", "v", "e", "s">>
      [] str = "ocl" -> <<"o", "c", "l">>
      [] str = "changeinocl" -> <<"c", "h", "a", "n", "g", "e", "i", "n", "o", "c", "l">>
      [] str = "reserves" -> <<"r", "e", "s", "e", "r", "v", "e", "s">>
      [] str = "incurred" -> <<"i", "n", "c", "u", "r", "r", "e", "d">>
      [] str = "claim" -> <<"c", "l", "a", "i", "m">>
      [] str = "rate" -> <<"r", "a", "t", "e">>
      [] str = "ratio" -> <<"r", "a", "t", "i", "o">>
      [] str = "percent" -> <<"p", "e", "r", "c", "e", "n", "t">>
      [] str = "count" -> <<"c", "o", "u", "n", "t">>
      [] str = "number" -> <<"n", "u", "m", "b", "e", "r">>
      [] str = "quantity" -> <<"q", "u", "a", "n", "t", "i", "t", "y">>
      [] str = "year" -> <<"y", "e", "a", "r">>

UpperLetters == <<"A","B","C","D","E","F","G","H","I","J","K","L","M",
                  "N","O","P","Q","R","S","T","U","V","W","X","Y","Z">>
LowerLetters == <<"a","b","c","d","e","f","g","h","i","j","k","l","m",
                  "n","o","p","q","r","s","t","u","v","w","x","y","z">>

IsUpper(ch) == \E i \in 1..26 : UpperLetters[i] = ch
IsLower(ch) == \E i \in 1..26 : LowerLetters[i] = ch
LowerChar(ch) ==
    IF IsUpper(ch) THEN LowerLetters[CHOOSE i \in 1..26 : UpperLetters[i] = ch] ELSE ch
UpperChar(ch) ==
    IF IsLower(ch) THEN UpperLetters[CHOOSE i \in 1..26 : LowerLetters[i] = ch] ELSE ch

\* str.lower()
Lower(cs) == [i \in 1..Len(cs) |-> LowerChar(cs[i])]

\* needle in haystack
IsSubstring(needle, haystack) ==
    \E k \in 0..(Len(haystack) - Len(needle)) :
        \A i \in 1..Len(needle) : haystack[k + i] = needle[i]

\* "".join(cs), by halves
RECURSIVE Join(_)
Join(cs) ==
    IF cs = <<>> THEN ""
    ELSE IF Len(cs) = 1 THEN cs[1]
    ELSE Join(SubSeq(cs, 1, Len(cs) \div 2))
             \o Join(SubSeq(cs, (Len(cs) \div 2) + 1, Len(cs)))

Digit == <<"0", "1", "2", "3", "4", "5", "6", "7", "8", "9">>

RECURSIVE Str(_)
Str(n) == IF n < 10 THEN Digit[n + 1] ELSE Str(n \div 10) \o Digit[(n % 10) + 1]

\* n >= 0 with the thousands separator of the "," format option
RECURSIVE Grouped(_)
Grouped(n) ==
    IF n < 1000 THEN Str(n)
    ELSE LET r == n % 1000
         IN  Grouped(n \div 1000) \o "," \o Digit[(r \div 100) + 1]
                 \o Digit[((r \div 10) % 10) + 1] \o Digit[(r % 10) + 1]

RECURSIVE Pow10(_)
Pow10(k) == IF k = 0 THEN 1 ELSE 10 * Pow10(k - 1)

RECURSIVE ZeroPad(_, _)
ZeroPad(n, width) ==
    IF width = 0 THEN "" ELSE ZeroPad(n \div 10, width - 1) \o Digit[(n % 10) + 1]

\* a / b (a >= 0, b > 0) rounded to the nearest integer, ties to even
RoundHalfEven(a, b) ==
    LET q == a \div b
        r == a % b
    IN  IF 2 * r < b THEN q
        ELSE IF 2 * r > b THEN q + 1
        ELSE IF q % 2 = 0 THEN q ELSE q + 1

\* format(value * scale, ",.<decimals>f") or ".<decimals>f": fixed notation
FormatFixed(value, scale, decimals, grouped) ==
    IF value.kind = "nan" THEN "nan"
    ELSE LET q == RoundHalfEven(Abs(value.num) * scale * Pow10(decimals), value.den)
             whole == q \div Pow10(decimals)
             frac == q % Pow10(decimals)
         IN  (IF value.num < 0 THEN "-" ELSE "")
             \o (IF grouped THEN Grouped(whole) ELSE Str(whole))
             \o (IF decimals > 0 THEN "." \o ZeroPad(frac, decimals) ELSE "")

\* str(value) of a numpy int64
StrInt(value) == (IF value.num < 0 THEN "-" ELSE "") \o Str(Abs(value.num))

MoneyKeywords == {"actualincurred", "nominalreserves", "discountedreserves", "ocl", "changeinocl", "reserves", "incurred", "claim"}
RateKeywords == {"rate", "ratio", "percent"}
CountKeywords == {"count", "number", "quantity", "year"}

FieldNames ==
    {"CaseReserves", "LoB_masked", "ActuarialIBNR", "PaidLossandALAE", "ULAE",
     "NonCatLosses", "ChangeInReservesForPolicyholderDividends", "LargeLosses1",
     "LossRatio", "PolicyCount", "Region"}

\* keyword in field_name.lower(), tabulated once for the names of the model
KeywordIn ==
    [keyword \in MoneyKeywords \cup RateKeywords \cup CountKeywords |->
        [field_name \in FieldNames |->
            IsSubstring(Chars(keyword), Lower(Chars(field_name)))]]

\* any(keyword in field_name.lower() for keyword in keywords)
AnyKeywordIn(keywords, field_name) ==
    \E keyword \in keywords : KeywordIn[keyword][field_name]

\* A variant of _format_value without its first branch (value == 0 -> "-").
format_value_without_dash(value, field_name) ==
    IF AnyKeywordIn(MoneyKeywords, field_name)
         THEN "$" \o FormatFixed(value, 1, 0, TRUE)
    ELSE IF AnyKeywordIn(RateKeywords, field_name)
         THEN IF value.kind # "nan" /\ value.num <= value.den
              THEN FormatFixed(value, 100, 2, FALSE) \o "%"
              ELSE FormatFixed(value, 1, 2, FALSE) \o "%"
    ELSE IF AnyKeywordIn(CountKeywords, field_name)
         THEN FormatFixed(value, 1, 0, TRUE)
    ELSE IF value.kind \in {"float", "nan"}
         THEN FormatFixed(value, 1, 2, TRUE)
    ELSE StrInt(value)

\* PowerPointService._format_value
format_value(value, field_name) ==
    IF value.kind # "nan" /\ value.num = 0 THEN "-"
    ELSE IF AnyKeywordIn(MoneyKeywords, field_name)
         THEN "$" \o FormatFixed(value, 1, 0, TRUE)
    ELSE IF AnyKeywordIn(RateKeywords, field_name)
         THEN IF value.kind # "nan" /\ value.num <= value.den
              THEN FormatFixed(value, 100, 2, FALSE) \o "%"
              ELSE FormatFixed(value, 1, 2, FALSE) \o "%"
    ELSE IF AnyKeywordIn(CountKeywords, field_name)
         THEN FormatFixed(value, 1, 0, TRUE)
    ELSE IF value.kind \in {"float", "nan"}
         THEN FormatFixed(value, 1, 2, TRUE)
    ELSE StrInt(value)

\* str.title(): a letter is upper-cased after a non-letter and at the start,
\* lower-cased after a letter
Title(cs) ==
    [i \in 1..Len(cs) |->
        IF i > 1 /\ (IsUpper(cs[i - 1]) \/ IsLower(cs[i - 1]))
        THEN LowerChar(cs[i])
        ELSE UpperChar(cs[i])]

\* field_name.replace("_", " ").title()
ReplaceTitle(field_name) ==
    LET replaced == [i \in 1..Len(Chars(field_name)) |->
                        IF Chars(field_name)[i] = "_" THEN " " ELSE Chars(field_name)[i]]
    IN  Join(Title(replaced))

\* the same, tabulated once for the names of the model
HeaderNames == [field_name \in FieldNames |-> ReplaceTitle(field_name)]

\* PowerPointService._format_header_name
format_header_name(field_name) == HeaderNames[field_name]


(***************************************************************************)
(* models.SlideFieldSelection (rationale is never read by the services).   *)
(***************************************************************************)
SlideFieldSelection(row_label, metric_fields, is_group_header, spans_all_columns, is_aggregate, filters, aggregation, component_rows) ==
    [row_label |-> row_label, metric_fields |-> metric_fields,
     is_group_header |-> is_group_header, spans_all_columns |-> spans_all_columns,
     is_aggregate |-> is_aggregate, filters |-> filters,
     aggregation |-> aggregation, component_rows |-> component_rows]

(***************************************************************************)
(* The table shape of the slide (slide.shapes.add_table(rows, cols)).      *)
(* A fresh table has empty, unstyled cells.  table.rows and table.columns  *)
(* are read by the service both as numbers (row_idx >= table.rows,         *)
(* range(1, table.columns)) and as collections (enumerate(table.rows)):    *)
(* attr says what the table object answers to the number readings.  With   *)
(* "count" the comparisons with a number work; with "collection"           *)
(* (python-pptx's _RowCollection) comparing it with an int raises          *)
(* TypeError.  Which of the two holds depends on the installed library.    *)
(***************************************************************************)
TableAttrs == {"count", "collection"}

EmptyCell == [text |-> "", style |-> "none"]

add_table(rows, cols, attr) ==
    [rows |-> rows, cols |-> cols, attr |-> attr,
     cell |-> [r \in 0..(rows - 1) |-> [c \in 0..(cols - 1) |-> EmptyCell]]]

SetText(table, r, c, text) == [table EXCEPT !.cell[r][c].text = text]
SetStyle(table, r, c, style) == [table EXCEPT !.cell[r][c].style = style]

InSeq(x, s) == \E i \in 1..Len(s) : s[i] = x

\* PowerPointService._set_table_headers_new, columns 1.. from index i
RECURSIVE SetHeaderCells(_, _, _)
SetHeaderCells(table, all_metric_fields, i) ==
    IF i > Len(all_metric_fields) THEN table
    ELSE LET styled == SetStyle(SetText(table, 0, i,
                                        format_header_name(all_metric_fields[i])),
                                0, i, "header")
         IN  After(styled, SetHeaderCells(styled, all_metric_fields, i + 1))

set_table_headers_new(table, all_metric_fields) ==
    SetHeaderCells(SetStyle(SetText(table, 0, 0, ""), 0, 0, "header"),
                   all_metric_fields, 1)

\* A variant of the filter loop that narrows the caller's frame in place
\* instead of a copy of it.
data_df_filtered_in_place(data_df, filters) ==
    IF FiltersRaise(data_df, filters) THEN data_df ELSE ApplyFilters(data_df, filters)

\* The caller's data_df once _calculate_metric_value_with_filters has returned:
\* the filters work on "filtered_df = data_df.copy()" and every narrowing
\* rebinds the local name, so the caller's frame is the one it passed in.
data_df_after_calculate(data_df, filters) == data_df

\* The text _fill_metric_columns writes into the cell of metric_field
MetricCellText(field, metric_field, data_df) ==
    IF InSeq(metric_field, field.metric_fields)
    THEN IF metric_field \in data_df.columns
         THEN format_value(
                  calculate_metric_value_with_filters(
                      data_df, metric_field, field.aggregation, field.filters),
                  metric_field)
         ELSE "N/A"
    ELSE ""

\* PowerPointService._fill_metric_columns, columns from col_idx (0-based)
RECURSIVE FillMetricFrom(_, _, _, _, _, _, _)
FillMetricFrom(table, row_idx, field, all_metric_fields, data_df, is_group_header, col_idx) ==
    IF col_idx >= Len(all_metric_fields) THEN table
    ELSE LET metric_field == all_metric_fields[col_idx + 1]
             written == SetText(table, row_idx, col_idx + 1,
                                MetricCellText(field, metric_field, data_df))
             styled == SetStyle(written, row_idx, col_idx + 1,
                                IF is_group_header THEN "group" ELSE "data")
         IN  After(styled,
                   FillMetricFrom(styled, row_idx, field, all_metric_fields, data_df,
                                  is_group_header, col_idx + 1))

\* The caller's data_df once _fill_metric_columns has returned.  Every computed
\* cell of the row calls _calculate_metric_value_with_filters with the frame
\* the row was given and with the filters of the row: one call stands for
\* them all.
data_df_after_fill_metric_columns(field, all_metric_fields, data_df) ==
    IF \E j \in 1..Len(all_metric_fields) :
           /\ InSeq(all_metric_fields[j], field.metric_fields)
           /\ all_metric_fields[j] \in data_df.columns
    THEN data_df_after_calculate(data_df, field.filters)
    ELSE data_df

fill_metric_columns(table, row_idx, field, all_metric_fields, data_df, is_group_header) ==
    FillMetricFrom(table, row_idx, field, all_metric_fields, data_df, is_group_header, 0)

\* the loop "for col_idx in range(1, table.columns)" of a spanning group header
RECURSIVE ClearFrom(_, _, _)
ClearFrom(table, row_idx, col_idx) ==
    IF col_idx >= table.cols THEN table
    ELSE LET styled == SetStyle(SetText(table, row_idx, col_idx, ""),
                                row_idx, col_idx, "group")
         IN  After(styled, ClearFrom(styled, row_idx, col_idx + 1))

\* A variant of _fill_table_row_new without the spans_all_columns branch: a
\* group header always gets its metric columns filled.
fill_table_row_without_span(table, row_idx, field, all_metric_fields, data_df) ==
    IF table.attr = "collection" THEN table
    ELSE IF row_idx >= table.rows THEN table
    ELSE LET labelled == SetText(table, row_idx, 0, field.row_label)
         IN  IF field.is_group_header
             THEN fill_metric_columns(SetStyle(labelled, row_idx, 0, "group"), row_idx,
                                      field, all_metric_fields, data_df, TRUE)
             ELSE fill_metric_columns(SetStyle(labelled, row_idx, 0, "data"), row_idx,
                                      field, all_metric_fields, data_df, FALSE)

\* PowerPointService._fill_table_row_new
fill_table_row_new(table, row_idx, field, all_metric_fields, data_df) ==
    IF table.attr = "collection" THEN table      \* TypeError, caught and printed
    ELSE IF row_idx >= table.rows THEN table
    ELSE LET labelled == SetText(table, row_idx, 0, field.row_label)
         IN  IF field.is_group_header
             THEN LET header == SetStyle(labelled, row_idx, 0, "group")
                  IN  IF field.spans_all_columns
                      THEN ClearFrom(header, row_idx, 1)
                      ELSE fill_metric_columns(header, row_idx, field,
                                               all_metric_fields, data_df, TRUE)
             ELSE fill_metric_columns(SetStyle(labelled, row_idx, 0, "data"), row_idx,
                                      field, all_metric_fields, data_df, FALSE)

\* "for metric in field.metric_fields: if metric not in all: all.append(metric)"
RECURSIVE AppendUnique(_, _)
AppendUnique(all_metric_fields, metric_fields) ==
    IF metric_fields = <<>> THEN all_metric_fields
    ELSE LET appended == IF InSeq(Head(metric_fields), all_metric_fields)
                         THEN all_metric_fields
                         ELSE Append(all_metric_fields, Head(metric_fields))
             rest == Tail(metric_fields)
         IN  After(<<appended, rest>>, AppendUnique(appended, rest))

\* A variant of the first loop that passes over group-header rows.
RECURSIVE AllMetricFieldsOfNonHeaders(_, _)
AllMetricFieldsOfNonHeaders(fields, all_metric_fields) ==
    IF fields = <<>> THEN all_metric_fields
    ELSE LET rest == Tail(fields)
             appended == IF Head(fields).is_group_header THEN all_metric_fields
                         ELSE AppendUnique(all_metric_fields, Head(fields).metric_fields)
         IN  After(<<rest, appended>>, AllMetricFieldsOfNonHeaders(rest, appended))

\* the first loop of _create_data_table: the metric fields that become columns
RECURSIVE AllMetricFields(_, _)
AllMetricFields(fields, all_metric_fields) ==
    IF fields = <<>> THEN all_metric_fields
    ELSE LET rest == Tail(fields)
             appended == AppendUnique(all_metric_fields, Head(fields).metric_fields)
         IN  After(<<rest, appended>>, AllMetricFields(rest, appended))

\* The caller's data_df after _fill_table_row_new has dealt with row row_idx
data_df_after_row(table, row_idx, field, all_metric_fields, data_df) ==
    IF table.attr = "collection" THEN data_df
    ELSE IF row_idx >= table.rows THEN data_df
    ELSE IF field.is_group_header /\ field.spans_all_columns THEN data_df
    ELSE data_df_after_fill_metric_columns(field, all_metric_fields, data_df)

\* The caller's data_df when the second loop of _create_data_table reaches
\* row i: as the rows before i have left it
RECURSIVE DataBeforeRow(_, _, _, _, _)
DataBeforeRow(table, fields, all_metric_fields, data_df, i) ==
    IF i <= 1 THEN data_df
    ELSE LET before == DataBeforeRow(table, fields, all_metric_fields, data_df, i - 1)
         IN  After(before,
                   data_df_after_row(table, i - 1, fields[i - 1], all_metric_fields,
                                     before))

\* the second loop of _create_data_table: "for i, field in enumerate(fields)"
RECURSIVE FillRowsFrom(_, _, _, _, _)
FillRowsFrom(table, fields, all_metric_fields, data_df, i) ==
    IF i > Len(fields) THEN table
    ELSE LET filled == fill_table_row_new(table, i, fields[i], all_metric_fields,
                                          data_df)
             left == data_df_after_row(table, i, fields[i], all_metric_fields, data_df)
         IN  After(<<filled, left>>,
                   FillRowsFrom(filled, fields, all_metric_fields, left, i + 1))

NoTable == [rows |-> 0, cols |-> 0, attr |-> "none", cell |-> <<>>]

\* PowerPointService._create_data_table: the table put on the slide, NoTable
\* when the method returns before add_table.  (_format_table_new sets row
\* heights and column widths only.)
create_data_table(fields, data_df, attr) ==
    LET all_metric_fields == AllMetricFields(fields, <<>>)
    IN  IF all_metric_fields = <<>> THEN NoTable
        ELSE FillRowsFrom(
                 set_table_headers_new(
                     add_table(Len(fields) + 1, Len(all_metric_fields) + 1, attr),
                     all_metric_fields),
                 fields, all_metric_fields, data_df, 1)

\* The caller's data_df once _create_data_table has returned
data_df_after_create_data_table(fields, data_df, attr) ==
    LET all_metric_fields == AllMetricFields(fields, <<>>)
    IN  IF all_metric_fields = <<>> THEN data_df
        ELSE DataBeforeRow(
                 add_table(Len(fields) + 1, Len(all_metric_fields) + 1, attr),
                 fields, all_metric_fields, data_df, Len(fields) + 1)

\* What _create_data_table raises: its whole body is inside
\* "try: ... except Exception as e: print(...)", so nothing gets out.
NoException == "none"

create_data_table_raises(fs, df, attr) == NoException

(***************************************************************************)
(* Row specifications the user interface can submit for a slide.  LOB1,    *)
(* LOB2 and "Total" follow the agent's own selection (agent.py,            *)
(* _analyze_slides); the others vary the flags, filters and aggregation.   *)
(***************************************************************************)
LobFilter(n) == Filter(FilterColumn, NoKeyStr, Num(n))

RowLOB1 ==
    SlideFieldSelection("LOB1", <<MetricColumn>>, FALSE, FALSE, FALSE,
                        <<LobFilter(1)>>, "sum", <<>>)
RowLOB2 ==
    SlideFieldSelection("LOB2", <<MetricColumn>>, FALSE, FALSE, FALSE,
                        <<LobFilter(2)>>, "sum", <<>>)
RowTotal ==
    SlideFieldSelection("Total", <<MetricColumn, "ULAE">>, TRUE, TRUE, FALSE,
                        <<>>, "sum", <<>>)
RowSubtotal ==
    SlideFieldSelection("Subtotal", <<MetricColumn>>, FALSE, FALSE, TRUE,
                        <<>>, "sum", <<"LOB1">>)
RowLOB1Count ==
    SlideFieldSelection("LOB1 Count", <<MetricColumn>>, FALSE, FALSE, FALSE,
                        <<LobFilter(1)>>, "count", <<>>)
RowOther ==
    SlideFieldSelection("Other", <<"NonCatLosses", FilterColumn>>, FALSE, FALSE, FALSE,
                        <<Filter("Region", "==", Num(1)), Filter(MetricColumn, ">", Num(0))>>,
                        "max", <<>>)
RowGroup ==
    SlideFieldSelection("Group", <<MetricColumn>>, TRUE, FALSE, FALSE,
                        <<Filter(FilterColumn, "!=", Num(1))>>, "min", <<>>)
RowConflict ==
    SlideFieldSelection("Conflict", <<MetricColumn>>, TRUE, TRUE, TRUE,
                        <<>>, "sum", <<"LOB1">>)
RowCycleA ==
    SlideFieldSelection("A", <<MetricColumn>>, FALSE, FALSE, TRUE, <<>>, "sum", <<"B">>)
RowCycleB ==
    SlideFieldSelection("B", <<MetricColumn>>, FALSE, FALSE, TRUE, <<>>, "average", <<"A">>)

RowUnvalued ==
    SlideFieldSelection("Unvalued", <<MetricColumn>>, FALSE, FALSE, FALSE,
                        <<Filter(MetricColumn, ">", NoKey)>>, "sum", <<>>)

\* a row that declares no metric field: a label on its own
RowNote ==
    SlideFieldSelection("Note", <<>>, FALSE, FALSE, FALSE, <<>>, "sum", <<>>)

RowPool ==
    {RowLOB1, RowLOB2, RowTotal, RowSubtotal, RowLOB1Count, RowOther, RowGroup,
     RowConflict, RowCycleA, RowCycleB, RowUnvalued, RowNote}

RowLists == SeqsUpTo(RowPool, MaxSlideRows)

(***************************************************************************)
(* State.                                                                  *)
(***************************************************************************)
VARIABLES
    data_df,        \* the project's dataset, as loaded by pd.read_csv
    table_attr,     \* how the table object answers table.rows (see TableAttrs)
    fields,         \* the row list handed to _create_data_table
    table,          \* the table _create_data_table left on the slide
    raised,         \* the exception _create_data_table let through to its caller
    built,          \* _create_data_table has returned
    project_status, \* Project.status of the project's stored row
    slides,         \* the project's stored Slide rows, by slide_number
    deck,           \* downloads/{project_id}/analysis_report.pptm: a table per slide
    events,         \* the messages the operation in flight has sent to the project
    pc,             \* where the connection's handler stands
    req,            \* the slide_update message being handled
    edits,          \* the number of slide_update messages received
    connects,       \* the number of websocket connections accepted
    pcs,            \* with two connections: where each connection's handler stands
    reqs,           \* with two connections: the operation each connection runs
    writes,         \* with two connections: the committed writes to the slide rows
    other_slides,   \* the stored Slide rows of another project
    connections,    \* WebSocketManager.connections: a list of websockets per project
    alive,          \* the websockets whose client has not gone away
    endpoint,       \* where the websocket_endpoint of each websocket stands
    call,           \* the send_to_project call in flight
    calculated      \* a call of _calculate_metric_value_with_filters and its value

vars == <<data_df, table_attr, fields, table, raised, built,
          project_status, slides, deck, events, pc, req, edits, connects,
          pcs, reqs, writes, other_slides, connections, alive, endpoint, call,
          calculated>>

tableVars == <<fields, table, raised, built, calculated>>
peerVars == <<pcs, reqs, writes>>
agentVars == <<project_status, slides, deck, events, pc, req, edits, connects, peerVars,
               other_slides>>
managerVars == <<connections, alive, endpoint, call>>

NoDeck == [saved |-> FALSE, tables |-> <<>>]
NoRequest == [slide_number |-> 0, user_fields |-> <<>>]

\* AnalysisAgent.project_id, the project of the connection, and another
\* project with rows in the same tables
ProjectId == "p"
OtherProjectId == "q"

\* the websocket connections of one project that may be live together
Connections == {1, 2}
NoOperation == [slide_number |-> 0, user_fields |-> <<>>, op |-> 0]

\* the websocket objects, and the project in the path of each one's request
Websockets == {1, 2, 3}
ProjectOf == <<ProjectId, ProjectId, OtherProjectId>>

\* WebSocketManager.__init__: self.connections = {}
NoConnections == [project_id \in {} |-> <<>>]
\* no send_to_project call yet.  A call keeps: its arguments, the websocket
\* whose handler made it, how many items its for loop has taken (next), the
\* websockets it has called send_json on (sent), its local list disconnected,
\* whether the list it iterates is still the registry's (live), the list at
\* the time of the call (at_call) and the websockets other handlers removed
\* from the list since (removed)
NoCall == [project_id |-> "", message |-> 0, caller |-> 0, next |-> 0, sent |-> <<>>,
           disconnected |-> <<>>, live |-> FALSE, at_call |-> <<>>,
           removed |-> {}, state |-> "none"]

NoCalculation == [metric_field |-> "", aggregation |-> "", filters |-> <<>>,
                  value |-> IntVal(0), called |-> FALSE]

InitManager ==
    /\ connections = NoConnections
    /\ alive = {}
    /\ endpoint = [websocket \in Websockets |-> "new"]
    /\ call = NoCall

(***************************************************************************)
(* The slide table builder on its own: any dataset, any row list.          *)
(***************************************************************************)
InitTable ==
    /\ data_df \in DataFrames
    /\ table_attr \in TableAttrs
    /\ fields = <<>>
    /\ table = NoTable
    /\ raised = NoException
    /\ built = FALSE
    /\ project_status = "initialized"
    /\ slides = <<>>
    /\ deck = NoDeck
    /\ events = <<>>
    /\ pc = "closed"
    /\ req = NoRequest
    /\ edits = 0
    /\ connects = 0
    /\ pcs = [c \in Connections |-> "closed"]
    /\ reqs = [c \in Connections |-> NoOperation]
    /\ writes = <<>>
    /\ other_slides = <<>>
    /\ InitManager
    /\ calculated = NoCalculation

CreateDataTable ==
    /\ ~built
    /\ \E fs \in RowLists :
          /\ fields' = fs
          /\ table' = create_data_table(fs, data_df, table_attr)
          /\ raised' = create_data_table_raises(fs, data_df, table_attr)
          /\ data_df' = data_df_after_create_data_table(fs, data_df, table_attr)
    /\ built' = TRUE
    /\ UNCHANGED table_attr
    /\ UNCHANGED agentVars
    /\ UNCHANGED managerVars
    /\ UNCHANGED calculated

Reverse(s) == [i \in 1..Len(s) |-> s[Len(s) + 1 - i]]

\* A variant of the second build that walks the row list from its end.
RebuildDataTableReversed ==
    /\ built
    /\ table' = create_data_table(Reverse(fields), data_df, table_attr)
    /\ raised' = create_data_table_raises(Reverse(fields), data_df, table_attr)
    /\ data_df' = data_df_after_create_data_table(Reverse(fields), data_df, table_attr)
    /\ UNCHANGED <<fields, built, table_attr>>
    /\ UNCHANGED agentVars
    /\ UNCHANGED managerVars
    /\ UNCHANGED calculated

\* _create_data_table once more, on a new slide, for the same row list and
\* the frame the first build was given: what every later
\* generate_complete_presentation does for a slide that was not edited.
RebuildDataTable ==
    /\ built
    /\ table' = create_data_table(fields, data_df, table_attr)
    /\ raised' = create_data_table_raises(fields, data_df, table_attr)
    /\ data_df' = data_df_after_create_data_table(fields, data_df, table_attr)
    /\ UNCHANGED <<fields, built, table_attr>>
    /\ UNCHANGED agentVars
    /\ UNCHANGED managerVars
    /\ UNCHANGED calculated

NextTable == CreateDataTable \/ RebuildDataTable

SpecTable == InitTable /\ [][NextTable]_vars

(***************************************************************************)
(* The agent's own selection (AnalysisAgent._analyze_slides): three slides *)
(* with the same eight rows.                                               *)
(***************************************************************************)
NumSlides == 3
NumLOB == 5

TotalMetrics ==
    <<"ActuarialIBNR", "PaidLossandALAE", MetricColumn, "ULAE", "NonCatLosses",
      "ChangeInReservesForPolicyholderDividends", "LargeLosses1">>

AgentTotal ==
    SlideFieldSelection("Total", TotalMetrics, TRUE, TRUE, FALSE, <<>>, "sum", <<>>)

AgentLOB(n) ==
    SlideFieldSelection("LOB" \o Str(n), <<"ActuarialIBNR", "PaidLossandALAE", MetricColumn>>,
                        FALSE, FALSE, FALSE, <<LobFilter(n)>>, "sum", <<>>)

AgentTotalLossComponent ==
    SlideFieldSelection("Total Loss Component",
                        <<"ActuarialIBNR", MetricColumn, "PaidLossandALAE">>,
                        FALSE, FALSE, TRUE, <<>>, "sum",
                        [n \in 1..NumLOB |-> "LOB" \o Str(n)])

AgentLossComponentChange ==
    SlideFieldSelection("Loss Component Change", TotalMetrics, TRUE, TRUE, FALSE,
                        <<>>, "sum", <<>>)

\* the selected_fields of each AgentAnalysisResult, by slide_number
analyze_slides ==
    [n \in 1..NumSlides |->
        <<AgentTotal>> \o [k \in 1..NumLOB |-> AgentLOB(k)]
            \o <<AgentTotalLossComponent, AgentLossComponentChange>>]

\* a stored Slide row of the project (user_modified_fields is <<>> until an
\* edit sets it)
Slide(project_id, slide_number, status, agent_selected_fields, user_modified_fields, final_fields) ==
    [project_id |-> project_id, slide_number |-> slide_number, status |-> status,
     agent_selected_fields |-> agent_selected_fields,
     user_modified_fields |-> user_modified_fields, final_fields |-> final_fields]

\* a commit that no constraint guards
unique_project_slide_unchecked(rows) == TRUE

\* UniqueConstraint("project_id", "slide_number"): what a commit of the
\* project's rows requires
unique_project_slide(rows) ==
    \A i, j \in DOMAIN rows : i # j => rows[i].slide_number # rows[j].slide_number

\* start_initial_analysis: the Slide rows added to the session, one for each
\* AgentAnalysisResult
slides_of_analysis(project_id) ==
    [n \in 1..NumSlides |->
        Slide(project_id, n, "agent_analyzed", analyze_slides[n], <<>>,
              analyze_slides[n])]

analysed_slides == slides_of_analysis(ProjectId)

\* A variant of the first update whose where-clause names no project.
update_slide_processing_any_project(rows, project_id, slide_number, user_fields) ==
    [n \in DOMAIN rows |->
        IF rows[n].slide_number = slide_number
        THEN [rows[n] EXCEPT !.user_modified_fields = user_fields,
                             !.final_fields = user_fields,
                             !.status = "processing"]
        ELSE rows[n]]

\* process_slide_update: update(Slide).where(project_id, slide_number)
\* .values(user_modified_fields, final_fields, status="processing") over the
\* rows of the slides table
update_slide_processing(rows, project_id, slide_number, user_fields) ==
    [n \in DOMAIN rows |->
        IF rows[n].project_id = project_id /\ rows[n].slide_number = slide_number
        THEN [rows[n] EXCEPT !.user_modified_fields = user_fields,
                             !.final_fields = user_fields,
                             !.status = "processing"]
        ELSE rows[n]]

\* process_slide_update: update(Slide).where(project_id, slide_number)
\* .values(status="completed")
update_slide_completed(rows, project_id, slide_number) ==
    [n \in DOMAIN rows |->
        IF rows[n].project_id = project_id /\ rows[n].slide_number = slide_number
        THEN [rows[n] EXCEPT !.status = "completed"]
        ELSE rows[n]]

(***************************************************************************)
(* The deck.                                                               *)
(***************************************************************************)
\* PowerPointService._update_slide_content: the table left on the slide
update_slide_content(slide_data, df, attr) ==
    LET fields_data == IF slide_data.final_fields # <<>> THEN slide_data.final_fields
                       ELSE slide_data.agent_selected_fields
    IN  IF fields_data = <<>> THEN NoTable
        ELSE create_data_table(fields_data, df, attr)

\* The caller's data_df once _update_slide_content has returned
data_df_after_update_slide_content(slide_data, df, attr) ==
    LET fields_data == IF slide_data.final_fields # <<>> THEN slide_data.final_fields
                       ELSE slide_data.agent_selected_fields
    IN  IF fields_data = <<>> THEN df
        ELSE data_df_after_create_data_table(fields_data, df, attr)

\* "for i, slide_data in enumerate(slides)": one frame, read once, is handed to
\* every slide in slide order.  DataFrameFor is the frame slide n is handed: df
\* as the slides before n have left it.
RECURSIVE DataFrameFor(_, _, _, _)
DataFrameFor(stored, df, attr, n) ==
    IF n <= 1 THEN df
    ELSE LET before == DataFrameFor(stored, df, attr, n - 1)
         IN  After(before,
                   data_df_after_update_slide_content(stored[n - 1], before, attr))

\* A variant of the slide loop that gives a table only to the slides under
\* edit and leaves every other slide without one.
generate_edited_slides_only(stored, df, attr) ==
    [saved |-> TRUE,
     tables |-> [n \in 1..Len(stored) |->
                    IF stored[n].status = "processing"
                    THEN update_slide_content(stored[n], df, attr)
                    ELSE NoTable]]

\* PowerPointService.generate_complete_presentation: the file it saves
generate_complete_presentation(stored, df, attr) ==
    [saved |-> TRUE,
     tables |-> [n \in 1..Len(stored) |->
                    LET handed == DataFrameFor(stored, df, attr, n)
                    IN  After(handed, update_slide_content(stored[n], handed, attr))]]

\* An exception is caught and printed while the table of fs is built: the
\* TypeError of "row_idx >= table.rows" in every row fill, or the TypeError of
\* an ordering comparison against a filter without value in a computed cell.
create_data_table_prints_error(fs, df, attr) ==
    /\ AllMetricFields(fs, <<>>) # <<>>
    /\ \/ attr = "collection"
       \/ \E i \in 1..Len(fs) :
             /\ ~(fs[i].is_group_header /\ fs[i].spans_all_columns)
             /\ \E j \in 1..Len(fs[i].metric_fields) :
                   fs[i].metric_fields[j] \in df.columns
             /\ FiltersRaise(df, fs[i].filters)

(***************************************************************************)
(* Messages sent with send_to_project.                                     *)
(***************************************************************************)
\* f"/downloads/{self.project_id}/analysis_report.pptm"
DownloadUrl == "/downloads/{project_id}/analysis_report.pptm"

Event(type, status, progress, slide_number, message, exception, rows) ==
    [type |-> type, status |-> status, progress |-> progress,
     slide_number |-> slide_number, message |-> message, exception |-> exception,
     rows |-> rows,
     download_url |-> IF type \in {"powerpoint_ready", "slide_completed"}
                      THEN DownloadUrl ELSE ""]

\* A variant of _send_status that reports the progress left instead of the
\* progress made.
send_status_remaining(status, progress) ==
    Event("status_update", status, 100 - progress, 0, "", "", <<>>)

\* AnalysisAgent._send_status
send_status(status, progress) == Event("status_update", status, progress, 0, "", "", <<>>)

\* AnalysisAgent._send_error; exception names the class of the error handled
send_error(message, exception) == Event("error", "", 0, 0, message, exception, <<>>)

TableRow(cells, is_aggregate, spans_all_columns, if_total_what_row_labels) ==
    [cells |-> cells, is_aggregate |-> is_aggregate,
     spans_all_columns |-> spans_all_columns,
     if_total_what_row_labels |-> if_total_what_row_labels]

\* the rows of the table AnalysisAgent._convert_fields_to_llm_slide_reader makes
convert_fields_to_llm_slide_reader(fs) ==
    [i \in 1..Len(fs) |->
        IF fs[i].is_group_header /\ fs[i].spans_all_columns
        THEN TableRow(<<fs[i].row_label>>, FALSE, TRUE, <<>>)
        ELSE IF fs[i].is_aggregate
        THEN TableRow(<<fs[i].row_label>> \o [k \in 1..11 |-> ""], TRUE, FALSE,
                      fs[i].component_rows)
        ELSE TableRow(<<fs[i].row_label>> \o [k \in 1..11 |-> ""], FALSE, FALSE, <<>>)]

\* A variant of _send_analysis_results that sends the final status first.
send_analysis_results_status_first(analyses) ==
    <<send_status("WAITING_FOR_USER", 100)>>
        \o [n \in 1..Len(analyses) |->
               Event("slide_analysis", "agent_analyzed", 0, n, "", "",
                     convert_fields_to_llm_slide_reader(analyses[n]))]

\* the slide_analysis messages of AnalysisAgent._send_analysis_results
send_analysis_results(analyses) ==
    [n \in 1..Len(analyses) |->
        Event("slide_analysis", "agent_analyzed", 0, n, "", "",
              convert_fields_to_llm_slide_reader(analyses[n]))]
        \o <<send_status("WAITING_FOR_USER", 100)>>

(***************************************************************************)
(* Inputs of the orchestrator: the dataset of the project and the row      *)
(* lists a slide_update message carries.                                   *)
(***************************************************************************)
SampleDataFrames ==
    {[columns |-> DataColumns,
      rows |-> <<[LoB_masked |-> Num(1), CaseReserves |-> Num(1000)],
                 [LoB_masked |-> Num(2), CaseReserves |-> Num(-1000)]>>]}

EditLists ==
    {<<>>, <<RowLOB1, RowSubtotal>>, <<RowSubtotal>>, <<RowConflict, RowLOB1>>,
     <<RowUnvalued>>}

(***************************************************************************)
(* One websocket connection of the project's client (main.py,              *)
(* websocket_endpoint) and the agent it drives.  events holds the messages *)
(* of the operation in flight: each operation starts it afresh.            *)
(***************************************************************************)
Init ==
    /\ data_df \in SampleDataFrames
    /\ table_attr \in TableAttrs
    /\ fields = <<>>
    /\ table = NoTable
    /\ raised = NoException
    /\ built = FALSE
    /\ project_status = "initialized"
    /\ slides = <<>>
    /\ deck = NoDeck
    /\ events = <<>>
    /\ pc = "closed"
    /\ req = NoRequest
    /\ edits = 0
    /\ connects = 0
    /\ pcs = [c \in Connections |-> "closed"]
    /\ reqs = [c \in Connections |-> NoOperation]
    /\ writes = <<>>
    /\ other_slides = slides_of_analysis(OtherProjectId)
    /\ InitManager
    /\ calculated = NoCalculation

\* websocket_endpoint: the project exists, the connection is accepted
WebsocketConnect ==
    /\ pc = "closed"
    /\ connects < MaxConnects
    /\ connects' = connects + 1
    /\ pc' = "connected"
    /\ req' = NoRequest
    /\ events' = <<>>
    /\ UNCHANGED <<data_df, table_attr, project_status, slides, deck, edits>>
    /\ UNCHANGED tableVars
    /\ UNCHANGED other_slides
    /\ UNCHANGED managerVars
    /\ UNCHANGED peerVars

\* start_initial_analysis: status write, commit, first status message
AnalysisBegin ==
    /\ pc = "connected"
    /\ project_status' = "agent_analyzing"
    /\ events' = Append(events, send_status("AGENT_ANALYZING", 0))
    /\ pc' = "analyze"
    /\ UNCHANGED <<data_df, table_attr, slides, deck, req, edits, connects>>
    /\ UNCHANGED tableVars
    /\ UNCHANGED other_slides
    /\ UNCHANGED managerVars
    /\ UNCHANGED peerVars

\* start_initial_analysis: read the files, _analyze_slides, store the slides.
\* Reading may fail; storing a slide_number the project already has violates
\* the unique constraint at commit.  Both end in the outer except.
AnalysisSaveSlides ==
    /\ pc = "analyze"
    /\ \E readable \in BOOLEAN :
          IF ~readable
          THEN /\ events' = Append(events, send_error("Analysis failed", "OSError"))
               /\ pc' = "receive"
               /\ UNCHANGED slides
          ELSE IF ~unique_project_slide(slides \o analysed_slides)
          THEN /\ events' = Append(events, send_error("Analysis failed", "IntegrityError"))
               /\ pc' = "receive"
               /\ UNCHANGED slides
          ELSE /\ slides' = slides \o analysed_slides
               /\ events' = Append(events, send_status("GENERATING_POWERPOINT", 80))
               /\ pc' = "analysis_generate"
    /\ UNCHANGED <<data_df, table_attr, project_status, deck, req, edits, connects>>
    /\ UNCHANGED tableVars
    /\ UNCHANGED other_slides
    /\ UNCHANGED managerVars
    /\ UNCHANGED peerVars

\* start_initial_analysis: the inner try around generate_complete_presentation
AnalysisGenerate ==
    /\ pc = "analysis_generate"
    /\ \E written \in BOOLEAN :
          IF written
          THEN /\ deck' = generate_complete_presentation(slides, data_df, table_attr)
               /\ events' = Append(events,
                                   Event("powerpoint_ready", "", 0, 0, "", "", <<>>))
          ELSE /\ events' = Append(events,
                                   send_error("PowerPoint generation failed", "Exception"))
               /\ UNCHANGED deck
    /\ pc' = "analysis_finish"
    /\ UNCHANGED <<data_df, table_attr, project_status, slides, req, edits, connects>>
    /\ UNCHANGED tableVars
    /\ UNCHANGED other_slides
    /\ UNCHANGED managerVars
    /\ UNCHANGED peerVars

\* start_initial_analysis: last status write and its commit
AnalysisFinish ==
    /\ pc = "analysis_finish"
    /\ project_status' = "waiting_for_user"
    /\ pc' = "analysis_send"
    /\ UNCHANGED <<data_df, table_attr, slides, deck, events, req, edits, connects>>
    /\ UNCHANGED tableVars
    /\ UNCHANGED other_slides
    /\ UNCHANGED managerVars
    /\ UNCHANGED peerVars

\* start_initial_analysis: _send_analysis_results, which reads the dataset
\* again; a failure ends in the outer except
AnalysisSendResults ==
    /\ pc = "analysis_send"
    /\ \E readable \in BOOLEAN :
          events' = IF readable THEN events \o send_analysis_results(analyze_slides)
                    ELSE Append(events, send_error("Analysis failed", "OSError"))
    /\ pc' = "receive"
    /\ UNCHANGED <<data_df, table_attr, project_status, slides, deck, req, edits, connects>>
    /\ UNCHANGED tableVars
    /\ UNCHANGED other_slides
    /\ UNCHANGED managerVars
    /\ UNCHANGED peerVars

\* handle_slide_update and process_slide_update up to the call of
\* generate_complete_presentation: first write, commit, two status messages
ReceiveSlideUpdate ==
    /\ pc = "receive"
    /\ edits < MaxEdits
    /\ \E slide_number \in 1..NumSlides, user_fields \in EditLists :
          /\ req' = [slide_number |-> slide_number, user_fields |-> user_fields]
          /\ slides' = update_slide_processing(slides, ProjectId, slide_number,
                                                user_fields)
          /\ other_slides' = update_slide_processing(other_slides, ProjectId,
                                                      slide_number, user_fields)
    /\ events' = <<send_status("SLIDE_PROCESSING", 50),
                   send_status("UPDATING_POWERPOINT", 70)>>
    /\ edits' = edits + 1
    /\ pc' = "update_generate"
    /\ UNCHANGED <<data_df, table_attr, project_status, deck, connects>>
    /\ UNCHANGED tableVars
    /\ UNCHANGED managerVars
    /\ UNCHANGED peerVars

\* process_slide_update: generate_complete_presentation.  It raises when the
\* dataset cannot be read or the file cannot be written, and only then.
UpdateGenerate ==
    /\ pc = "update_generate"
    /\ \E written \in BOOLEAN :
          IF written
          THEN /\ deck' = generate_complete_presentation(slides, data_df, table_attr)
               /\ pc' = "update_complete"
               /\ UNCHANGED events
          ELSE /\ events' = Append(events,
                                   send_error("Failed to process slide", "Exception"))
               /\ pc' = "receive"
               /\ UNCHANGED deck
    /\ UNCHANGED <<data_df, table_attr, project_status, slides, req, edits, connects>>
    /\ UNCHANGED tableVars
    /\ UNCHANGED other_slides
    /\ UNCHANGED managerVars
    /\ UNCHANGED peerVars

\* A variant of the second write that stores nothing.
UpdateCompleteWithoutWrite ==
    /\ pc = "update_complete"
    /\ pc' = "update_send"
    /\ UNCHANGED <<data_df, table_attr, project_status, slides, deck, events, req,
                   edits, connects>>
    /\ UNCHANGED tableVars
    /\ UNCHANGED other_slides
    /\ UNCHANGED managerVars
    /\ UNCHANGED peerVars

\* process_slide_update: second write ("Mark slide as completed") and its commit
UpdateComplete ==
    /\ pc = "update_complete"
    /\ slides' = update_slide_completed(slides, ProjectId, req.slide_number)
    /\ other_slides' = update_slide_completed(other_slides, ProjectId, req.slide_number)
    /\ pc' = "update_send"
    /\ UNCHANGED <<data_df, table_attr, project_status, deck, events, req, edits, connects>>
    /\ UNCHANGED tableVars
    /\ UNCHANGED managerVars
    /\ UNCHANGED peerVars

\* process_slide_update: _send_slide_update_complete, _send_slide_completed
UpdateSendComplete ==
    /\ pc = "update_send"
    /\ \E readable \in BOOLEAN :
          events' =
              Append(
                  Append(events,
                         IF readable /\ req.slide_number \in DOMAIN slides
                         THEN Event("slide_update_complete", "completed", 0,
                                    req.slide_number, "", "",
                                    convert_fields_to_llm_slide_reader(req.user_fields))
                         ELSE send_error("Failed to send slide update data",
                                         IF readable THEN "NoResultFound" ELSE "OSError")),
                  Event("slide_completed", "completed", 0, req.slide_number, "", "", <<>>))
    /\ pc' = "receive"
    /\ UNCHANGED <<data_df, table_attr, project_status, slides, deck, req, edits, connects>>
    /\ UNCHANGED tableVars
    /\ UNCHANGED other_slides
    /\ UNCHANGED managerVars
    /\ UNCHANGED peerVars

\* websocket_endpoint: WebSocketDisconnect while waiting for a message
WebsocketDisconnect ==
    /\ pc = "receive"
    /\ pc' = "closed"
    /\ UNCHANGED <<data_df, table_attr, project_status, slides, deck, events, req,
                   edits, connects>>
    /\ UNCHANGED tableVars
    /\ UNCHANGED other_slides
    /\ UNCHANGED managerVars
    /\ UNCHANGED peerVars

Next ==
    \/ WebsocketConnect
    \/ AnalysisBegin
    \/ AnalysisSaveSlides
    \/ AnalysisGenerate
    \/ AnalysisFinish
    \/ AnalysisSendResults
    \/ ReceiveSlideUpdate
    \/ UpdateGenerate
    \/ UpdateComplete
    \/ UpdateSendComplete
    \/ WebsocketDisconnect

Spec == Init /\ [][Next]_vars

(***************************************************************************)
(* Two websocket connections of one project, each with its own             *)
(* AnalysisAgent (main.py, websocket_endpoint).  Each connection is served *)
(* by a task of its own and the handlers hold no lock: a task may run      *)
(* between any two awaits of another.  Every step below ends at an await.  *)
(* writes is the order in which the writes to the project's slide rows     *)
(* were committed, each with the connection and the operation it belongs   *)
(* to.  The messages go to the connections and write nothing to the        *)
(* project's storage: events is left as it is.                             *)
(***************************************************************************)
\* the row lists a slide_update message carries here
TwoEditLists == {<<RowLOB1, RowSubtotal>>}

\* the next operation of the project: connections and edits so far, plus one
NextOperation == connects + edits + 1

Written(c) == [conn |-> c, op |-> reqs[c].op]

\* websocket_endpoint: the project exists, the connection is accepted
ConnectOn(c) ==
    /\ pcs[c] = "closed"
    /\ connects < MaxConnects
    /\ connects' = connects + 1
    /\ pcs' = [pcs EXCEPT ![c] = "connected"]
    /\ reqs' = [reqs EXCEPT ![c] = [NoOperation EXCEPT !.op = NextOperation]]
    /\ UNCHANGED <<data_df, table_attr, project_status, slides, deck, edits, writes>>
    /\ UNCHANGED <<events, pc, req>>
    /\ UNCHANGED tableVars
    /\ UNCHANGED other_slides
    /\ UNCHANGED managerVars

\* start_initial_analysis: status write and commit
AnalysisBeginOn(c) ==
    /\ pcs[c] = "connected"
    /\ project_status' = "agent_analyzing"
    /\ pcs' = [pcs EXCEPT ![c] = "analyze"]
    /\ UNCHANGED <<data_df, table_attr, slides, deck, edits, connects, reqs, writes>>
    /\ UNCHANGED <<events, pc, req>>
    /\ UNCHANGED tableVars
    /\ UNCHANGED other_slides
    /\ UNCHANGED managerVars

\* start_initial_analysis: read the files, _analyze_slides, add the slides and
\* commit; the commit fails on the unique constraint when the project has
\* slides already
AnalysisSaveSlidesOn(c) ==
    /\ pcs[c] = "analyze"
    /\ \E readable \in BOOLEAN :
          IF readable /\ unique_project_slide(slides \o analysed_slides)
          THEN /\ slides' = slides \o analysed_slides
               /\ writes' = Append(writes, Written(c))
               /\ pcs' = [pcs EXCEPT ![c] = "analysis_generate"]
          ELSE /\ pcs' = [pcs EXCEPT ![c] = "receive"]
               /\ UNCHANGED <<slides, writes>>
    /\ UNCHANGED <<data_df, table_attr, project_status, deck, edits, connects, reqs>>
    /\ UNCHANGED <<events, pc, req>>
    /\ UNCHANGED tableVars
    /\ UNCHANGED other_slides
    /\ UNCHANGED managerVars

\* start_initial_analysis: the inner try around generate_complete_presentation
AnalysisGenerateOn(c) ==
    /\ pcs[c] = "analysis_generate"
    /\ \E written \in BOOLEAN :
          deck' = IF written
                  THEN generate_complete_presentation(slides, data_df, table_attr)
                  ELSE deck
    /\ pcs' = [pcs EXCEPT ![c] = "analysis_finish"]
    /\ UNCHANGED <<data_df, table_attr, project_status, slides, edits, connects, reqs,
                   writes>>
    /\ UNCHANGED <<events, pc, req>>
    /\ UNCHANGED tableVars
    /\ UNCHANGED other_slides
    /\ UNCHANGED managerVars

\* start_initial_analysis: last status write and its commit
AnalysisFinishOn(c) ==
    /\ pcs[c] = "analysis_finish"
    /\ project_status' = "waiting_for_user"
    /\ pcs' = [pcs EXCEPT ![c] = "analysis_send"]
    /\ UNCHANGED <<data_df, table_attr, slides, deck, edits, connects, reqs, writes>>
    /\ UNCHANGED <<events, pc, req>>
    /\ UNCHANGED tableVars
    /\ UNCHANGED other_slides
    /\ UNCHANGED managerVars

\* start_initial_analysis: _send_analysis_results, then the receive loop
AnalysisSendResultsOn(c) ==
    /\ pcs[c] = "analysis_send"
    /\ pcs' = [pcs EXCEPT ![c] = "receive"]
    /\ UNCHANGED <<data_df, table_attr, project_status, slides, deck, edits, connects,
                   reqs, writes>>
    /\ UNCHANGED <<events, pc, req>>
    /\ UNCHANGED tableVars
    /\ UNCHANGED other_slides
    /\ UNCHANGED managerVars

\* handle_slide_update and process_slide_update up to the call of
\* generate_complete_presentation: first write and its commit
ReceiveSlideUpdateOn(c) ==
    /\ pcs[c] = "receive"
    /\ edits < MaxEdits
    /\ \E slide_number \in 1..NumSlides, user_fields \in TwoEditLists :
          /\ reqs' = [reqs EXCEPT ![c] = [slide_number |-> slide_number,
                                          user_fields |-> user_fields,
                                          op |-> NextOperation]]
          /\ slides' = update_slide_processing(slides, ProjectId, slide_number,
                                                user_fields)
          /\ other_slides' = update_slide_processing(other_slides, ProjectId,
                                                      slide_number, user_fields)
          /\ writes' = IF slide_number \in DOMAIN slides
                       THEN Append(writes, [conn |-> c, op |-> NextOperation])
                       ELSE writes
    /\ edits' = edits + 1
    /\ pcs' = [pcs EXCEPT ![c] = "update_generate"]
    /\ UNCHANGED <<data_df, table_attr, project_status, deck, connects>>
    /\ UNCHANGED <<events, pc, req>>
    /\ UNCHANGED tableVars
    /\ UNCHANGED managerVars

\* process_slide_update: generate_complete_presentation
UpdateGenerateOn(c) ==
    /\ pcs[c] = "update_generate"
    /\ \E written \in BOOLEAN :
          IF written
          THEN /\ deck' = generate_complete_presentation(slides, data_df, table_attr)
               /\ pcs' = [pcs EXCEPT ![c] = "update_complete"]
          ELSE /\ pcs' = [pcs EXCEPT ![c] = "receive"]
               /\ UNCHANGED deck
    /\ UNCHANGED <<data_df, table_attr, project_status, slides, edits, connects, reqs,
                   writes>>
    /\ UNCHANGED <<events, pc, req>>
    /\ UNCHANGED tableVars
    /\ UNCHANGED other_slides
    /\ UNCHANGED managerVars

\* process_slide_update: second write ("Mark slide as completed") and its commit
UpdateCompleteOn(c) ==
    /\ pcs[c] = "update_complete"
    /\ slides' = update_slide_completed(slides, ProjectId, reqs[c].slide_number)
    /\ other_slides' = update_slide_completed(other_slides, ProjectId,
                                               reqs[c].slide_number)
    /\ writes' = IF reqs[c].slide_number \in DOMAIN slides
                 THEN Append(writes, Written(c))
                 ELSE writes
    /\ pcs' = [pcs EXCEPT ![c] = "update_send"]
    /\ UNCHANGED <<data_df, table_attr, project_status, deck, edits, connects, reqs>>
    /\ UNCHANGED <<events, pc, req>>
    /\ UNCHANGED tableVars
    /\ UNCHANGED managerVars

\* process_slide_update: _send_slide_update_complete, _send_slide_completed
UpdateSendCompleteOn(c) ==
    /\ pcs[c] = "update_send"
    /\ pcs' = [pcs EXCEPT ![c] = "receive"]
    /\ UNCHANGED <<data_df, table_attr, project_status, slides, deck, edits, connects,
                   reqs, writes>>
    /\ UNCHANGED <<events, pc, req>>
    /\ UNCHANGED tableVars
    /\ UNCHANGED other_slides
    /\ UNCHANGED managerVars

\* websocket_endpoint: WebSocketDisconnect while waiting for a message
DisconnectOn(c) ==
    /\ pcs[c] = "receive"
    /\ pcs' = [pcs EXCEPT ![c] = "closed"]
    /\ UNCHANGED <<data_df, table_attr, project_status, slides, deck, edits, connects,
                   reqs, writes>>
    /\ UNCHANGED <<events, pc, req>>
    /\ UNCHANGED tableVars
    /\ UNCHANGED other_slides
    /\ UNCHANGED managerVars

NextTwo ==
    \E c \in Connections :
        \/ ConnectOn(c)
        \/ AnalysisBeginOn(c)
        \/ AnalysisSaveSlidesOn(c)
        \/ AnalysisGenerateOn(c)
        \/ AnalysisFinishOn(c)
        \/ AnalysisSendResultsOn(c)
        \/ ReceiveSlideUpdateOn(c)
        \/ UpdateGenerateOn(c)
        \/ UpdateCompleteOn(c)
        \/ UpdateSendCompleteOn(c)
        \/ DisconnectOn(c)

SpecTwo == Init /\ [][NextTwo]_vars



(***************************************************************************)
(* Reading the built table.                                                *)
(***************************************************************************)
TableBuilt == built /\ table # NoTable

Columns == AllMetricFields(fields, <<>>)

ColumnOf(metric_field) == CHOOSE j \in 1..Len(Columns) : Columns[j] = metric_field

CellText(i, metric_field) == table.cell[i][ColumnOf(metric_field)].text

\* row i was written by _fill_table_row_new (its label cell is set and styled)
RowFilled(i) == table.cell[i][0].style # "none"

Spanning(field) == field.is_group_header /\ field.spans_all_columns

\* the row computes cell values: it is no spanning group header
Computes(field) == ~Spanning(field)

RowsLabelled(label) == {i \in 1..Len(fields) : fields[i].row_label = label}

\* a + b on numbers
AddVal(a, b) ==
    IF a.kind = "nan" \/ b.kind = "nan" THEN NaNVal
    ELSE [kind |-> IF a.kind = "float" \/ b.kind = "float" THEN "float" ELSE "int",
          num |-> a.num * b.den + b.num * a.den,
          den |-> a.den * b.den]

RECURSIVE SumVals(_)
SumVals(vs) == IF vs = <<>> THEN IntVal(0) ELSE AddVal(Head(vs), SumVals(Tail(vs)))

\* the value row i computes for metric_field from the dataset
RowValue(i, metric_field) ==
    calculate_metric_value_with_filters(data_df, metric_field,
                                        fields[i].aggregation, fields[i].filters)

\* every component_rows entry of row i names exactly one row of the slide, a row
\* that computes metric_field itself from the dataset
ComponentsResolve(i, metric_field) ==
    \A k \in 1..Len(fields[i].component_rows) :
        /\ Cardinality(RowsLabelled(fields[i].component_rows[k])) = 1
        /\ \A c \in RowsLabelled(fields[i].component_rows[k]) :
              /\ ~fields[c].is_aggregate
              /\ Computes(fields[c])
              /\ InSeq(metric_field, fields[c].metric_fields)

ComponentSum(i, metric_field) ==
    SumVals([k \in 1..Len(fields[i].component_rows) |->
                RowValue(CHOOSE c \in RowsLabelled(fields[i].component_rows[k]) : TRUE,
                         metric_field)])

(***************************************************************************)
(* C1: in a built table, every aggregate row shows in each of its metric   *)
(* columns the sum of the values its component rows compute for that       *)
(* metric, whatever its own aggregation and filters.                       *)
(* The service never reads is_aggregate or component_rows: the row is      *)
(* computed from the dataset like a leaf row.                              *)
(***************************************************************************)
C1_AggregateIsSumOfComponents ==
    TableBuilt =>
        \A i \in 1..Len(fields) :
            \A j \in 1..Len(fields[i].metric_fields) :
                LET metric_field == fields[i].metric_fields[j]
                IN  (/\ fields[i].is_aggregate
                     /\ RowFilled(i)
                     /\ Computes(fields[i])
                     /\ fields[i].component_rows # <<>>
                     /\ metric_field \in data_df.columns
                     /\ ComponentsResolve(i, metric_field))
                    => CellText(i, metric_field)
                           = format_value(ComponentSum(i, metric_field), metric_field)

(***************************************************************************)
(* C2.  FirstSeen(names) is names without its repetitions, each name at    *)
(* the place of its first occurrence.                                      *)
(***************************************************************************)
RECURSIVE Concat(_)
Concat(ss) == IF ss = <<>> THEN <<>> ELSE Head(ss) \o Concat(Tail(ss))

FirstSeen(names) ==
    SelectSeqIdx(names,
                 [i \in 1..Len(names) |-> \A k \in 1..(i - 1) : names[k] # names[i]],
                 1)

MetricsOfRows(keep) ==
    FirstSeen(Concat([i \in 1..Len(fields) |->
                         IF keep[i] THEN fields[i].metric_fields ELSE <<>>]))

HeaderTexts == [j \in 1..(table.cols - 1) |-> table.cell[0][j].text]

HeadersOf(names) == [j \in 1..Len(names) |-> format_header_name(names[j])]

\* C2 as claimed: the columns of a built table are the first-seen union of the
\* metric_fields of the rows that are no group header.
C2_ColumnsFromNonHeaderRows ==
    TableBuilt =>
        HeaderTexts
            = HeadersOf(MetricsOfRows([i \in 1..Len(fields) |-> ~fields[i].is_group_header]))

\* C2 as amended: the columns of a built table are the first-seen union of the
\* metric_fields of all rows of the slide, group-header rows included.
C2_ColumnsFromAllRows ==
    TableBuilt =>
        HeaderTexts = HeadersOf(MetricsOfRows([i \in 1..Len(fields) |-> TRUE]))

\* C2 witness: a built table with a column that only a group-header row declares,
\* next to a column a data row declares.
C2_Witness ==
    /\ TableBuilt
    /\ table.cols >= 3
    /\ \E h, d \in 1..Len(fields) :
          /\ fields[h].is_group_header
          /\ ~fields[d].is_group_header
          /\ \E m \in Range(fields[h].metric_fields) :
                /\ \A i \in 1..Len(fields) :
                      ~fields[i].is_group_header => ~InSeq(m, fields[i].metric_fields)
                /\ format_header_name(m) \in Range(HeaderTexts)
          /\ \E m \in Range(fields[d].metric_fields) :
                format_header_name(m) \in Range(HeaderTexts)


(***************************************************************************)
(* C3: in a built table, every metric cell of a row with is_group_header   *)
(* and spans_all_columns is the empty string, whatever the dataset and     *)
(* whatever metric_fields, filters and aggregation the row declares.       *)
(***************************************************************************)
C3_SpanningHeaderCellsEmpty ==
    TableBuilt =>
        \A i \in 1..Len(fields) :
            Spanning(fields[i]) =>
                \A c \in 1..(table.cols - 1) : table.cell[i][c].text = ""

\* C3 witness: a spanning group header was written into a table next to a row
\* with a computed value, and declares a metric whose total over the dataset is
\* not zero.
C3_Witness ==
    /\ TableBuilt
    /\ \E i, d \in 1..Len(fields) :
          /\ Spanning(fields[i])
          /\ RowFilled(i)
          /\ table.cell[i][0].text = fields[i].row_label
          /\ InSeq(MetricColumn, fields[i].metric_fields)
          /\ RowValue(i, MetricColumn).num # 0
          /\ RowFilled(d)
          /\ \E c \in 1..(table.cols - 1) : table.cell[d][c].text \notin {"", "-", "N/A"}

(***************************************************************************)
(* C4: in a row that computes values, a declared metric field that is no   *)
(* column of the dataset gives the cell text "N/A", and a declared metric  *)
(* field whose aggregate over the filtered rows is zero gives "-".         *)
(***************************************************************************)
\* the dataset rows that pass every filter of row i
FilteredRows(i) == ApplyFilters(data_df, fields[i].filters).rows

\* the aggregate of row i over the filtered rows of metric_field is the number 0:
\* a sum, maximum, minimum or mean of 0, or a count of no value
AggregateIsZero(i, metric_field) ==
    LET vals == NonNull([data_df EXCEPT !.rows = FilteredRows(i)], metric_field)
        aggregation == fields[i].aggregation
    IN  /\ ~FiltersRaise(data_df, fields[i].filters)
        /\ CASE aggregation = "count" -> Len(vals) = 0
             [] aggregation \in {"average", "mean", "max", "min"} ->
                    /\ vals # <<>>
                    /\ IF aggregation = "max" THEN MaxOf(Range(vals)) = 0
                       ELSE IF aggregation = "min" THEN MinOf(Range(vals)) = 0
                       ELSE SumSeq(vals) = 0
             [] OTHER -> SumSeq(vals) = 0

AbsentPredicates ==
    {Filter("Region", NoKeyStr, Num(1)), Filter("Region", "!=", Num(1)),
     Filter("Region", ">", NoKey)}

InsertAt(s, k, x) == SubSeq(s, 1, k) \o <<x>> \o SubSeq(s, k + 1, Len(s))

IsLeaf(field) == ~field.is_group_header /\ ~field.is_aggregate

C5_AbsentFilterFieldIgnored ==
    TableBuilt =>
        \A i \in 1..Len(fields) :
            (RowFilled(i) /\ IsLeaf(fields[i])) =>
                \A m \in Range(fields[i].metric_fields) :
                    LET shown == CellText(i, m)
                    IN  \A predicate \in AbsentPredicates :
                            \A k \in 0..Len(fields[i].filters) :
                                MetricCellText(
                                    [fields[i] EXCEPT
                                        !.filters = InsertAt(fields[i].filters, k, predicate)],
                                    m, data_df)
                                  = shown

\* C5 witness: a written leaf row whose own filter keeps some dataset rows and
\* drops others, with a computed value in its cell.
C5_Witness ==
    /\ TableBuilt
    /\ \E i \in 1..Len(fields) :
          /\ RowFilled(i) /\ IsLeaf(fields[i])
          /\ fields[i].filters # <<>>
          /\ FilteredRows(i) # <<>>
          /\ Len(FilteredRows(i)) < Len(data_df.rows)
          /\ \E m \in Range(fields[i].metric_fields) :
                CellText(i, m) \notin {"", "-", "N/A"}

(***************************************************************************)
(* C6: a leaf row with aggregation "count" on a monetary metric field      *)
(* shows the number N of non-null values among the filtered rows as a      *)
(* grouped integer, without currency symbol (where the same row with       *)
(* aggregation "sum" shows the money-formatted sum).                       *)
(* _format_value picks the format from the field name alone, so the count  *)
(* of a monetary field is written as money ("$1"), and a count of 0 as "-".*)
(***************************************************************************)
IsMonetary(metric_field) == AnyKeywordIn(MoneyKeywords, metric_field)

C6_CountShownAsGroupedInteger ==
    TableBuilt =>
        \A i \in 1..Len(fields) :
            (RowFilled(i) /\ IsLeaf(fields[i]) /\ fields[i].aggregation = "count") =>
                \A m \in Range(fields[i].metric_fields) :
                    (m \in data_df.columns /\ IsMonetary(m)) =>
                        CellText(i, m)
                            = Grouped(Len(NonNull([data_df EXCEPT !.rows = FilteredRows(i)], m)))

(***************************************************************************)
(* C7: when a row of a submitted row list names in component_rows a label  *)
(* that no row of the list carries, the regeneration ends in an error      *)
(* (UnknownComponentRow) and leaves the stored artifact as it was.         *)
(* component_rows is never looked up: the deck is rebuilt and saved.  The  *)
(* formula accepts an error message of any wording.                        *)
(***************************************************************************)
HasUnknownComponent(fs) ==
    \E i \in 1..Len(fs) :
        \E k \in 1..Len(fs[i].component_rows) :
            \A j \in 1..Len(fs) : fs[j].row_label # fs[i].component_rows[k]

C7_UnknownComponentRaises ==
    [][(/\ pc = "update_generate"
        /\ pc' # "update_generate"
        /\ req.slide_number \in DOMAIN slides
        /\ HasUnknownComponent(req.user_fields))
       => (/\ deck' = deck
           /\ pc' = "receive"
           /\ events'[Len(events')].type = "error")]_vars

(***************************************************************************)
(* C8: when two aggregate rows of the slide name each other in             *)
(* component_rows, _create_data_table raises CyclicAggregateReference and  *)
(* puts no table, not even its header row, on the slide.                   *)
(* The service never follows component_rows: the table is built.           *)
(***************************************************************************)
CyclicPair ==
    \E a, b \in 1..Len(fields) :
        /\ a # b
        /\ fields[a].is_aggregate /\ fields[b].is_aggregate
        /\ InSeq(fields[b].row_label, fields[a].component_rows)
        /\ InSeq(fields[a].row_label, fields[b].component_rows)

C8_CycleRaisesBeforeTable ==
    (built /\ CyclicPair) => (raised = "CyclicAggregateReference" /\ table = NoTable)

(***************************************************************************)
(* C9: when the build of some slide's table fails during a regeneration,   *)
(* the regeneration sends exactly one error message and leaves the stored  *)
(* artifact as it was.                                                     *)
(* The errors of the table build are caught and printed inside the         *)
(* service: the deck is saved with the table as far as it got, and the     *)
(* edit goes on to report completion.                                      *)
(***************************************************************************)
RenderedFields(slide_data) ==
    IF slide_data.final_fields # <<>> THEN slide_data.final_fields
    ELSE slide_data.agent_selected_fields

C9_FailedBuildWritesNoArtifact ==
    [][(/\ pc = "update_generate"
        /\ pc' # "update_generate"
        /\ \E n \in 1..Len(slides) :
              create_data_table_prints_error(RenderedFields(slides[n]), data_df, table_attr))
       => (/\ deck' = deck
           /\ pc' = "receive"
           /\ Len(events') = Len(events) + 1
           /\ events'[Len(events')].type = "error")]_vars

(***************************************************************************)
(* C10: a submitted row that sets is_aggregate together with               *)
(* is_group_header and spans_all_columns is reported as a                  *)
(* SpecificationError, and the edit is not reported as completed with the  *)
(* row rendered in one of the modes.  The formula accepts an error message *)
(* of any wording.                                                         *)
(* No flag combination is rejected: the row is rendered as a spanning      *)
(* group header, in the deck and in the slide_update_complete message.     *)
(***************************************************************************)
ConflictingFlags(field) ==
    field.is_aggregate /\ field.is_group_header /\ field.spans_all_columns

C10_ConflictingFlagsReported ==
    (/\ pc = "receive"
     /\ \E i \in 1..Len(req.user_fields) : ConflictingFlags(req.user_fields[i]))
    => (/\ \E k \in 1..Len(events) : events[k].type = "error"
        /\ \A k \in 1..Len(events) :
              events[k].type \notin {"slide_update_complete", "slide_completed"})

(***************************************************************************)
(* C11: for every non-empty row list the slide gets a table with one       *)
(* header row and one row per RowSpecification, in order, each with a      *)
(* label cell and one cell per column; a cell holds the computed value     *)
(* when the row declares the column's metric and is blank otherwise, also  *)
(* when no row declares any metric field.  The formula asks the per-row    *)
(* content of written rows only and lets a spanning group header be blank. *)
(* _create_data_table returns at "if not all_metric_fields: return": a     *)
(* slide whose rows declare no metric field gets no table at all.          *)
(***************************************************************************)
C11_OneRowPerSpecification ==
    (built /\ fields # <<>>) =>
        /\ table.rows = Len(fields) + 1
        /\ table.cols = Len(Columns) + 1
        /\ \A i \in 1..Len(fields) :
              RowFilled(i) =>
                  /\ table.cell[i][0].text = fields[i].row_label
                  /\ \A j \in 1..Len(Columns) :
                        table.cell[i][j].text =
                            IF Computes(fields[i])
                            THEN MetricCellText(fields[i], Columns[j], data_df)
                            ELSE ""

C13_EvaluationLeavesDatasetUnchanged ==
    [][/\ data_df' = data_df
       /\ (~built /\ built' /\ table' # NoTable) =>
             LET columns == AllMetricFields(fields', <<>>)
             IN  \A i \in 1..Len(fields') :
                     (RowFilled(i)' /\ Computes(fields'[i])) =>
                         \A j \in 1..Len(columns) :
                             table'.cell[i][j].text
                                 = MetricCellText(fields'[i], columns[j], data_df)]_vars

\* C13 witness: a written row follows a written row whose filters keep only a
\* part of the dataset, and shows a value that this part alone does not give.
C13_Witness ==
    /\ TableBuilt
    /\ \E i, j \in 1..Len(fields) :
          /\ i < j
          /\ RowFilled(i) /\ RowFilled(j)
          /\ Computes(fields[i]) /\ Computes(fields[j])
          /\ InSeq(MetricColumn, fields[i].metric_fields)
          /\ InSeq(MetricColumn, fields[j].metric_fields)
          /\ ~FiltersRaise(data_df, fields[i].filters)
          /\ ApplyFilters(data_df, fields[i].filters) # data_df
          /\ CellText(j, MetricColumn)
                 # MetricCellText(fields[j], MetricColumn,
                                  ApplyFilters(data_df, fields[i].filters))

(***************************************************************************)
(* Reading the messages of a step.                                         *)
(***************************************************************************)
\* the messages a step sends: what events' holds beyond events
NewEvents ==
    IF Len(events') >= Len(events) /\ SubSeq(events', 1, Len(events)) = events
    THEN SubSeq(events', Len(events) + 1, Len(events'))
    ELSE events'

CompletionTypes == {"slide_update_complete", "slide_completed"}

NoCompletionIn(evs) == \A k \in 1..Len(evs) : evs[k].type \notin CompletionTypes

(***************************************************************************)
(* C14: an edit of a stored slide N goes through its steps in this order:  *)
(* the stored row list of N is replaced and its status set to processing;  *)
(* the deck is regenerated with a table for every stored slide, not only   *)
(* N; the status of N is set to completed; then, and not before, the       *)
(* completion event with the download reference is sent.                   *)
(***************************************************************************)
C14_EditStepsInOrder ==
    [][/\ (pc = "receive" /\ pc' = "update_generate"
                          /\ req'.slide_number \in DOMAIN slides)
          => /\ slides'[req'.slide_number].final_fields = req'.user_fields
             /\ slides'[req'.slide_number].status = "processing"
             /\ \A n \in DOMAIN slides : n # req'.slide_number => slides'[n] = slides[n]
             /\ deck' = deck
             /\ NoCompletionIn(events')
       /\ (pc = "update_generate" /\ pc' = "update_complete"
                                  /\ req.slide_number \in DOMAIN slides)
          => /\ slides[req.slide_number].status = "processing"
             /\ slides' = slides
             /\ deck'.saved
             /\ Len(deck'.tables) = Len(slides)
             /\ \A n \in DOMAIN slides :
                   deck'.tables[n] = update_slide_content(slides[n], data_df, table_attr)
             /\ NoCompletionIn(events')
       /\ (pc = "update_complete" /\ pc' = "update_send"
                                  /\ req.slide_number \in DOMAIN slides)
          => /\ deck' = deck
             /\ slides'[req.slide_number].status = "completed"
             /\ NoCompletionIn(events')
       /\ (pc = "update_send" /\ pc' = "receive" /\ req.slide_number \in DOMAIN slides)
          => /\ slides' = slides
             /\ slides[req.slide_number].status = "completed"
             /\ deck' = deck
             /\ NoCompletionIn(events)
             /\ LET last == events'[Len(events')]
                IN  /\ last.type = "slide_completed"
                    /\ last.slide_number = req.slide_number
                    /\ last.download_url = DownloadUrl]_vars

\* C14 witness: the edit of slide 2 with a row list of its own has gone through
\* all its steps: the slide holds the submitted rows and is completed, the deck
\* holds a table for slide 1 and for slide 2, and the last message is the
\* completion event with the download reference.
C14_Witness ==
    /\ pc = "receive"
    /\ req.slide_number = 2
    /\ req.user_fields # <<>>
    /\ req.slide_number \in DOMAIN slides
    /\ slides[2].final_fields = req.user_fields
    /\ slides[2].status = "completed"
    /\ slides[1].status = "agent_analyzed"
    /\ deck.saved
    /\ deck.tables[1] # NoTable
    /\ deck.tables[2] = update_slide_content(slides[2], data_df, table_attr)
    /\ deck.tables[2] # NoTable
    /\ Len(events) > 0
    /\ events[Len(events)].type = "slide_completed"
    /\ events[Len(events)].download_url = DownloadUrl

(***************************************************************************)
(* C15: a step that sends slide_update_complete or slide_completed for     *)
(* slide N starts from a state in which the stored status of N is already  *)
(* completed, and a step that sends the WAITING_FOR_USER status starts     *)
(* from a state in which the stored project status is already              *)
(* waiting_for_user: the write was committed by an earlier step.           *)
(***************************************************************************)
C15_NotifiedAfterCommit ==
    [][\A k \in 1..Len(NewEvents) :
          LET e == NewEvents[k]
          IN  /\ (e.type \in CompletionTypes /\ e.slide_number \in DOMAIN slides)
                 => slides[e.slide_number].status = "completed"
              /\ (e.type = "status_update" /\ e.status = "WAITING_FOR_USER")
                 => project_status = "waiting_for_user"]_vars

\* C15 witness: after an analysis that stored waiting_for_user, an edit has
\* sent both completion messages for a stored slide.
C15_Witness ==
    /\ pc = "receive"
    /\ project_status = "waiting_for_user"
    /\ req.slide_number \in DOMAIN slides
    /\ slides[req.slide_number].status = "completed"
    /\ \E k \in 1..Len(events) :
          /\ events[k].type = "slide_update_complete"
          /\ events[k].slide_number = req.slide_number
    /\ \E k \in 1..Len(events) :
          /\ events[k].type = "slide_completed"
          /\ events[k].slide_number = req.slide_number

(***************************************************************************)
(* C16: two operations of one project started from two live connections   *)
(* never interleave their writes to the project's slide rows: between two  *)
(* writes of one operation there is no write of another.                   *)
(* An edit writes twice, "processing" before the deck is regenerated and   *)
(* "completed" after it; nothing keeps the edit of another connection from *)
(* committing its first write in between.                                  *)
(***************************************************************************)
C16_WritesDoNotInterleave ==
    \A i, j, k \in 1..Len(writes) :
        (i < j /\ j < k /\ writes[i] = writes[k]) => writes[j] = writes[i]

(***************************************************************************)
(* C17: every change of the stored project status is an edge of            *)
(* initialized -> analyzing -> waiting_for_user <-> slide_processing,      *)
(* waiting_for_user -> completed, or an edge into failed; no other change  *)
(* occurs, such as waiting_for_user back to analyzing.                     *)
(* start_initial_analysis runs on every accepted connection and writes     *)
(* agent_analyzing whatever the stored status is: a second connection      *)
(* takes the project from waiting_for_user back to agent_analyzing.        *)
(***************************************************************************)
StatusEdges ==
    {<<"initialized", "agent_analyzing">>,
     <<"agent_analyzing", "waiting_for_user">>,
     <<"waiting_for_user", "slide_processing">>,
     <<"slide_processing", "waiting_for_user">>,
     <<"waiting_for_user", "completed">>}

C17_StatusChangesAreEdges ==
    [][project_status' # project_status
          => \/ <<project_status, project_status'>> \in StatusEdges
             \/ project_status' = "failed"]_vars

(***************************************************************************)
(* C18: when the initial analysis or an edit has ended with an unexpected  *)
(* internal error, the stored project status is failed.                    *)
(* The handlers of both operations only send an error message: the status  *)
(* stays what it was, agent_analyzing when the analysis cannot read the    *)
(* dataset.                                                                *)
(***************************************************************************)
EndedWithInternalError ==
    /\ pc = "receive"
    /\ events # <<>>
    /\ events[Len(events)].type = "error"
    /\ events[Len(events)].message \in {"Analysis failed", "Failed to process slide"}

C18_InternalErrorStoresFailed ==
    EndedWithInternalError => project_status = "failed"

(***************************************************************************)
(* C19: a run of the initial analysis that sends its results sends exactly *)
(* one slide_analysis message per generated slide, in ascending slide      *)
(* number, then exactly one WAITING_FOR_USER status message, and nothing   *)
(* after it.                                                               *)
(***************************************************************************)
IsSlideAnalysis(e) == e.type = "slide_analysis"

IsFinalStatus(e) == e.type = "status_update" /\ e.status = "WAITING_FOR_USER"

C19_OneAnalysisPerSlideThenFinalStatus ==
    (\E k \in 1..Len(events) : IsSlideAnalysis(events[k]) \/ IsFinalStatus(events[k]))
    => LET last == Len(events)
           analyses == SelectSeq(events, IsSlideAnalysis)
       IN  /\ Len(analyses) = NumSlides
           /\ Len(slides) = NumSlides
           /\ \A n \in 1..NumSlides : analyses[n].slide_number = n
           /\ last > NumSlides
           /\ \A n \in 1..NumSlides : events[last - NumSlides - 1 + n] = analyses[n]
           /\ IsFinalStatus(events[last])
           /\ Len(SelectSeq(events, IsFinalStatus)) = 1

\* C19 witness: a run has stored the three slides, generated the deck and sent
\* its results; the connection waits for the next message.
C19_Witness ==
    /\ pc = "receive"
    /\ req = NoRequest
    /\ deck.saved
    /\ Len(slides) = NumSlides
    /\ Len(SelectSeq(events, IsSlideAnalysis)) = NumSlides
    /\ IsFinalStatus(events[Len(events)])

(***************************************************************************)
(* C20: within one run (an initial analysis or an edit) the progress       *)
(* values of the successive status_update messages lie in 0..100 and never *)
(* decrease.                                                               *)
(***************************************************************************)
IsStatusUpdate(e) == e.type = "status_update"

C20_ProgressNeverDecreases ==
    LET updates == SelectSeq(events, IsStatusUpdate)
    IN  /\ \A k \in 1..Len(updates) : updates[k].progress \in 0..100
        /\ \A j, k \in 1..Len(updates) :
              j < k => updates[j].progress <= updates[k].progress

\* C20 witness: an edit has ended after its two status messages, with rising
\* progress, in a project whose analysis went through.
C20_Witness ==
    /\ pc = "receive"
    /\ project_status = "waiting_for_user"
    /\ req.slide_number \in DOMAIN slides
    /\ LET updates == SelectSeq(events, IsStatusUpdate)
       IN  /\ Len(updates) = 2
           /\ updates[1].progress < updates[2].progress
    /\ events[Len(events)].type = "slide_completed"

(***************************************************************************)
(* C21: once the edit of slide N with the submitted row list L has         *)
(* regenerated the deck, the table of slide N is the one built from the    *)
(* rows of L and from nothing else: no table when L is empty.              *)
(* _update_slide_content reads "final_fields or agent_selected_fields": an *)
(* empty L is falsy, and the slide is rendered from the agent's selection. *)
(***************************************************************************)
C21_EditedSlideRendersSubmittedRows ==
    [][(/\ pc = "update_generate"
        /\ pc' = "update_complete"
        /\ req.slide_number \in DOMAIN slides)
       => deck'.tables[req.slide_number]
              = IF req.user_fields = <<>> THEN NoTable
                ELSE create_data_table(req.user_fields, data_df, table_attr)]_vars

(***************************************************************************)
(* C28: when process_slide_update has ended, with the deck regenerated or  *)
(* not, the stored status of the edited slide is not processing.           *)
(* The except handler of process_slide_update sends an error message and   *)
(* writes nothing: after a failed regeneration the slide stays processing. *)
(***************************************************************************)
C28_EndedEditLeavesProcessing ==
    (pc = "receive" /\ req.slide_number \in DOMAIN slides)
    => slides[req.slide_number].status # "processing"


(***************************************************************************)
(* C25. A project has at most one stored slide per slide_number, every     *)
(* stored slide_number is at least 1, and an analysis started for a        *)
(* project that has slides already neither adds nor duplicates a slide:    *)
(* its commit violates the unique constraint, so the project never has     *)
(* more rows than the one analysis stored.                                 *)
(***************************************************************************)
OneSlidePerNumber(rows) ==
    /\ \A n \in DOMAIN rows : rows[n].slide_number >= 1
    /\ \A n \in DOMAIN rows :
          Cardinality({k \in DOMAIN rows : rows[k].slide_number = rows[n].slide_number}) = 1

C25_OneSlidePerNumber ==
    /\ OneSlidePerNumber(slides)
    /\ Len(slides) \in {0, NumSlides}

\* a second connection's analysis has ended on the unique constraint and the
\* project still has its slides, one per number
C25_Witness ==
    /\ connects = 2
    /\ pc = "receive"
    /\ events # <<>>
    /\ events[Len(events)] = send_error("Analysis failed", "IntegrityError")
    /\ Len(slides) = NumSlides
    /\ OneSlidePerNumber(slides)


(***************************************************************************)
(* C30. An edit of slide N changes only three columns of the project's row *)
(* for slide N: user_modified_fields, final_fields and status.  That row's *)
(* slide_number and agent_selected_fields, the project's other slide rows, *)
(* the project's status and the rows of other projects stay as they were,  *)
(* in each of the edit's steps.                                            *)
(***************************************************************************)
EditInFlight == pc \in {"update_generate", "update_complete", "update_send"}

MaxMessages == 2

Registered(conns, project_id) ==
    IF project_id \in DOMAIN conns THEN conns[project_id] ELSE <<>>

Listed(conns) ==
    {websocket \in Websockets :
        \E project_id \in DOMAIN conns :
            \E k \in 1..Len(conns[project_id]) : conns[project_id][k] = websocket}

Elements(list) == {list[k] : k \in 1..Len(list)}

\* WebSocketManager.connect: the registration
connect(conns, websocket, project_id) ==
    IF project_id \in DOMAIN conns
    THEN [conns EXCEPT ![project_id] = Append(@, websocket)]
    ELSE [p \in DOMAIN conns \cup {project_id} |->
            IF p = project_id THEN <<websocket>> ELSE conns[p]]

\* WebSocketManager.disconnect
disconnect(conns, websocket, project_id) ==
    IF project_id \notin DOMAIN conns THEN conns
    ELSE LET rest == SelectSeq(conns[project_id], LAMBDA w : w # websocket)
         IN  IF rest = <<>>
             THEN [p \in DOMAIN conns \ {project_id} |-> conns[p]]
             ELSE [conns EXCEPT ![project_id] = rest]

\* send_to_project: "for ws in disconnected: self.disconnect(ws, project_id)"
RECURSIVE disconnect_all(_, _, _)
disconnect_all(conns, disconnected, project_id) ==
    IF disconnected = <<>> THEN conns
    ELSE disconnect_all(disconnect(conns, Head(disconnected), project_id),
                        Tail(disconnected), project_id)

\* what a disconnect of websocket by another task does to the call in flight:
\* the list object the for loop iterates shrinks under it, and once the key is
\* deleted the loop is left with the emptied list object
call_after_disconnect(c, conns, websocket, project_id) ==
    IF c.state = "sending" /\ c.live /\ c.project_id = project_id
          /\ websocket \in Elements(Registered(conns, project_id))
    THEN [c EXCEPT !.removed = @ \cup {websocket},
                   !.live = project_id \in DOMAIN disconnect(conns, websocket, project_id)]
    ELSE c

restVars == <<data_df, table_attr, tableVars, agentVars>>

\* websocket_endpoint up to the registration in connect: accept, append
ManagerConnect(websocket) ==
    /\ endpoint[websocket] = "new"
    /\ connections' = connect(connections, websocket, ProjectOf[websocket])
    /\ alive' = alive \cup {websocket}
    /\ endpoint' = [endpoint EXCEPT ![websocket] = "welcome"]
    /\ UNCHANGED call
    /\ UNCHANGED restVars

\* the client of a connected websocket goes away
ClientCloses(websocket) ==
    /\ websocket \in alive
    /\ alive' = alive \ {websocket}
    /\ UNCHANGED <<connections, endpoint, call>>
    /\ UNCHANGED restVars

\* connect: the welcome message.  websocket_endpoint calls connect outside its
\* try, so an exception of send_json ends the task and nothing disconnects.
ManagerWelcome(websocket) ==
    /\ endpoint[websocket] = "welcome"
    /\ endpoint' = [endpoint EXCEPT ![websocket] =
                        IF websocket \in alive THEN "open" ELSE "failed"]
    /\ UNCHANGED <<connections, alive, call>>
    /\ UNCHANGED restVars

\* websocket_endpoint: receive_text raises on a websocket whose client has
\* gone, the error message cannot be sent either, and the outer except calls
\* websocket_manager.disconnect.  The task is not in a send_to_project call.
EndpointDisconnect(websocket) ==
    /\ endpoint[websocket] = "open"
    /\ websocket \notin alive
    /\ ~(call.state = "sending" /\ call.caller = websocket)
    /\ connections' = disconnect(connections, websocket, ProjectOf[websocket])
    /\ call' = call_after_disconnect(call, connections, websocket, ProjectOf[websocket])
    /\ endpoint' = [endpoint EXCEPT ![websocket] = "closed"]
    /\ UNCHANGED alive
    /\ UNCHANGED restVars

\* send_to_project is called by the agent of an open websocket: the test
\* "project_id in self.connections" and "disconnected = []"
SendBegin(websocket) ==
    /\ endpoint[websocket] = "open"
    /\ call.state # "sending"
    /\ call.message < MaxMessages
    /\ call' = [project_id |-> ProjectOf[websocket], message |-> call.message + 1,
                caller |-> websocket, next |-> 0, sent |-> <<>>,
                disconnected |-> <<>>,
                live |-> ProjectOf[websocket] \in DOMAIN connections,
                at_call |-> Registered(connections, ProjectOf[websocket]),
                removed |-> {},
                state |-> IF ProjectOf[websocket] \in DOMAIN connections
                          THEN "sending" ELSE "done"]
    /\ UNCHANGED <<connections, alive, endpoint>>
    /\ UNCHANGED restVars

\* the list object the for loop of the call iterates, as it is now
IteratedList == IF call.live THEN Registered(connections, call.project_id) ELSE <<>>

\* send_to_project: the for loop takes its next item and awaits send_json
SendNext ==
    /\ call.state = "sending"
    /\ call.next < Len(IteratedList)
    /\ LET websocket == IteratedList[call.next + 1]
       IN  call' = [call EXCEPT !.next = @ + 1,
                                !.sent = Append(@, websocket),
                                !.disconnected = IF websocket \in alive THEN @
                                                 ELSE Append(@, websocket)]
    /\ UNCHANGED <<connections, alive, endpoint>>
    /\ UNCHANGED restVars

\* send_to_project: the for loop is exhausted; the dead connections are
\* disconnected
SendFinish ==
    /\ call.state = "sending"
    /\ call.next >= Len(IteratedList)
    /\ connections' = disconnect_all(connections, call.disconnected, call.project_id)
    /\ call' = [call EXCEPT !.state = "done"]
    /\ UNCHANGED <<alive, endpoint>>
    /\ UNCHANGED restVars

NextManager ==
    \/ \E websocket \in Websockets : ManagerConnect(websocket)
    \/ \E websocket \in Websockets : ClientCloses(websocket)
    \/ \E websocket \in Websockets : ManagerWelcome(websocket)
    \/ \E websocket \in Websockets : EndpointDisconnect(websocket)
    \/ \E websocket \in Websockets : SendBegin(websocket)
    \/ SendNext
    \/ SendFinish

SpecManager == Init /\ [][NextManager]_vars


(***************************************************************************)
(* One websocket connection whose client may go away at any time, the      *)
(* initial analysis it starts and the chat queries it handles.  The        *)
(* websocket of the connection is numbered by connects.  No other task     *)
(* runs, so a send_to_project call is not interleaved with: it calls       *)
(* send_json on the registered websocket, swallows the exception of a dead *)
(* one and disconnects it.  events holds the messages handed to            *)
(* send_to_project or to websocket.send_json by the operation in flight.   *)
(***************************************************************************)
dropVars == <<data_df, table_attr, tableVars, peerVars, other_slides, req, edits,
              endpoint, call>>

\* the registry after a send_to_project call that runs alone
send_to_project(conns, live, project_id) ==
    disconnect_all(conns,
                   SelectSeq(Registered(conns, project_id), LAMBDA w : w \notin live),
                   project_id)

ClientGone == connects \notin alive

\* websocket_endpoint: the project exists; connect accepts, registers and
\* sends the welcome message
EndpointConnect ==
    /\ pc = "closed"
    /\ connects < MaxConnects
    /\ connects' = connects + 1
    /\ connections' = connect(connections, connects + 1, ProjectId)
    /\ alive' = alive \cup {connects + 1}
    /\ events' = <<>>
    /\ pc' = "connected"
    /\ UNCHANGED <<project_status, slides, deck>>
    /\ UNCHANGED dropVars

\* the client closes the connection, or the network does
ClientGoesAway ==
    /\ pc # "closed"
    /\ ~ClientGone
    /\ alive' = alive \ {connects}
    /\ UNCHANGED <<project_status, slides, deck, events, pc, connects, connections>>
    /\ UNCHANGED dropVars

\* start_initial_analysis: status write, commit, first status message
AnalysisBeginSending ==
    /\ pc = "connected"
    /\ project_status' = "agent_analyzing"
    /\ events' = Append(events, send_status("AGENT_ANALYZING", 0))
    /\ connections' = send_to_project(connections, alive, ProjectId)
    /\ pc' = "analyze"
    /\ UNCHANGED <<slides, deck, connects, alive>>
    /\ UNCHANGED dropVars

\* A variant of the step below in which send_to_project lets the exception
\* of a send to a dead connection through: it ends start_initial_analysis,
\* whose except cannot send either, and the endpoint.
AnalysisSaveSlidesSendRaises ==
    /\ pc = "analyze"
    /\ \E readable \in BOOLEAN :
          IF ~readable
          THEN /\ events' = Append(events, send_error("Analysis failed", "OSError"))
               /\ pc' = IF ClientGone THEN "raised" ELSE "receive"
               /\ UNCHANGED slides
          ELSE IF ~unique_project_slide(slides \o analysed_slides)
          THEN /\ events' = Append(events, send_error("Analysis failed", "IntegrityError"))
               /\ pc' = IF ClientGone THEN "raised" ELSE "receive"
               /\ UNCHANGED slides
          ELSE /\ slides' = slides \o analysed_slides
               /\ events' = Append(events, send_status("GENERATING_POWERPOINT", 80))
               /\ pc' = IF ClientGone THEN "raised" ELSE "analysis_generate"
    /\ UNCHANGED <<project_status, deck, connects, alive, connections>>
    /\ UNCHANGED dropVars

\* start_initial_analysis: read the files, _analyze_slides, store the slides,
\* second status message; a failure ends in the outer except, which sends the
\* error
AnalysisSaveSlidesSending ==
    /\ pc = "analyze"
    /\ \E readable \in BOOLEAN :
          IF ~readable
          THEN /\ events' = Append(events, send_error("Analysis failed", "OSError"))
               /\ pc' = "receive"
               /\ UNCHANGED slides
          ELSE IF ~unique_project_slide(slides \o analysed_slides)
          THEN /\ events' = Append(events, send_error("Analysis failed", "IntegrityError"))
               /\ pc' = "receive"
               /\ UNCHANGED slides
          ELSE /\ slides' = slides \o analysed_slides
               /\ events' = Append(events, send_status("GENERATING_POWERPOINT", 80))
               /\ pc' = "analysis_generate"
    /\ connections' = send_to_project(connections, alive, ProjectId)
    /\ UNCHANGED <<project_status, deck, connects, alive>>
    /\ UNCHANGED dropVars

\* start_initial_analysis: the inner try around generate_complete_presentation
AnalysisGenerateSending ==
    /\ pc = "analysis_generate"
    /\ \E written \in BOOLEAN :
          IF written
          THEN /\ deck' = generate_complete_presentation(slides, data_df, table_attr)
               /\ events' = Append(events,
                                   Event("powerpoint_ready", "", 0, 0, "", "", <<>>))
          ELSE /\ events' = Append(events,
                                   send_error("PowerPoint generation failed", "Exception"))
               /\ UNCHANGED deck
    /\ connections' = send_to_project(connections, alive, ProjectId)
    /\ pc' = "analysis_finish"
    /\ UNCHANGED <<project_status, slides, connects, alive>>
    /\ UNCHANGED dropVars

\* start_initial_analysis: last status write and its commit
AnalysisFinishSending ==
    /\ pc = "analysis_finish"
    /\ project_status' = "waiting_for_user"
    /\ pc' = "analysis_send"
    /\ UNCHANGED <<slides, deck, events, connects, connections, alive>>
    /\ UNCHANGED dropVars

\* start_initial_analysis: _send_analysis_results, which reads the dataset
\* again; a failure ends in the outer except
AnalysisSendResultsSending ==
    /\ pc = "analysis_send"
    /\ \E readable \in BOOLEAN :
          events' = IF readable THEN events \o send_analysis_results(analyze_slides)
                    ELSE Append(events, send_error("Analysis failed", "OSError"))
    /\ connections' = send_to_project(connections, alive, ProjectId)
    /\ pc' = "receive"
    /\ UNCHANGED <<project_status, slides, deck, connects, alive>>
    /\ UNCHANGED dropVars

\* websocket_endpoint: a message of type chat_query is received
ReceiveChatQuery ==
    /\ pc = "receive"
    /\ ~ClientGone
    /\ events' = <<>>
    /\ pc' = "chat_query"
    /\ UNCHANGED <<project_status, slides, deck, connects, connections, alive>>
    /\ UNCHANGED dropVars

\* A variant of handle_chat_query that answers through send_to_project.
handle_chat_query_to_project ==
    /\ pc = "chat_query"
    /\ \E found \in BOOLEAN :
          events' = Append(events,
                           IF found THEN Event("chat_response", "", 0, 0, "", "", <<>>)
                           ELSE send_error("Project not found", ""))
    /\ connections' = send_to_project(connections, alive, ProjectId)
    /\ pc' = "receive"
    /\ UNCHANGED <<project_status, slides, deck, connects, alive>>
    /\ UNCHANGED dropVars

\* handle_chat_query: the project is read (its row may have been deleted
\* since the connection was made), then the answer or "Project not found" is
\* sent with websocket.send_json.  On a dead websocket send_json raises, in
\* the handler's except and in the endpoint's too: the exception reaches the
\* outer except of websocket_endpoint.
handle_chat_query ==
    /\ pc = "chat_query"
    /\ \E found \in BOOLEAN :
          IF ClientGone
          THEN /\ pc' = "raised"
               /\ UNCHANGED events
          ELSE /\ events' = Append(events,
                                   IF found
                                   THEN Event("chat_response", "", 0, 0, "", "", <<>>)
                                   ELSE send_error("Project not found", ""))
               /\ pc' = "receive"
    /\ UNCHANGED <<project_status, slides, deck, connects, connections, alive>>
    /\ UNCHANGED dropVars

\* websocket_endpoint: the outer except branches call
\* websocket_manager.disconnect, after an exception of a handler or of
\* receive_text on a websocket whose client has gone
EndpointCloses ==
    /\ \/ pc = "raised"
       \/ pc = "receive" /\ ClientGone
    /\ connections' = disconnect(connections, connects, ProjectId)
    /\ pc' = "closed"
    /\ UNCHANGED <<project_status, slides, deck, events, connects, alive>>
    /\ UNCHANGED dropVars

AnalysisStep ==
    \/ AnalysisBeginSending
    \/ AnalysisSaveSlidesSending
    \/ AnalysisGenerateSending
    \/ AnalysisFinishSending
    \/ AnalysisSendResultsSending

NextDrop ==
    \/ EndpointConnect
    \/ ClientGoesAway
    \/ AnalysisStep
    \/ ReceiveChatQuery
    \/ handle_chat_query
    \/ EndpointCloses

SpecDrop == Init /\ [][NextDrop]_vars

\* start_initial_analysis is a coroutine of the endpoint's task: the event
\* loop resumes it whenever the operation it awaits has completed, and every
\* database, file and send operation it awaits completes or raises
FairSpecDrop == SpecDrop /\ WF_vars(AnalysisStep)

(***************************************************************************)
(* C24. A finished call send_to_project(p, m) has called send_json on      *)
(* every connection that was registered for p at the time of the call and  *)
(* is registered still, and on no connection of another project.           *)
(* The code does not keep this: the for loop iterates the registry's list  *)
(* while other handlers remove from it, and a removal in front of the      *)
(* loop's position makes the loop pass over the next connection.           *)
(***************************************************************************)
C24_SendReachesTheProjectOnly ==
    call.state = "done"
    => /\ \A websocket \in Elements(call.at_call) :
             websocket \in Listed(connections) => websocket \in Elements(call.sent)
       /\ \A websocket \in Elements(call.sent) : ProjectOf[websocket] = call.project_id

(***************************************************************************)
(* C27. A disconnect or connect of another handler while send_to_project   *)
(* iterates makes no connection that stays registered miss the message or  *)
(* get it twice: every connection registered at the call and not removed   *)
(* during it is sent the message exactly once.                             *)
(* The code does not keep this: list.remove shifts the later connections   *)
(* one place down under the iterator, which then skips one of them.        *)
(***************************************************************************)
TimesSent(websocket) ==
    Cardinality({k \in 1..Len(call.sent) : call.sent[k] = websocket})

C27_RegistryChangesDuringSendLoseNothing ==
    call.state = "done"
    => \A websocket \in Elements(call.at_call) \ call.removed : TimesSent(websocket) = 1

(***************************************************************************)
(* C29. The registry holds no project key with an empty list; a listed     *)
(* connection has connected and has since neither been disconnected nor    *)
(* failed a send that has been dealt with; a disconnect of a connection    *)
(* that is not listed changes nothing.                                     *)
(* The code does not keep the second part: when the welcome message of     *)
(* connect cannot be sent, the connection stays listed.                    *)
(***************************************************************************)
C29_RegistryListsLiveConnections ==
    [][/\ \A project_id \in DOMAIN connections' : connections'[project_id] # <<>>
       /\ \A websocket \in Listed(connections') :
             endpoint'[websocket] \in {"welcome", "open"}
       /\ \A websocket \in Websockets :
             (/\ endpoint[websocket] = "open"
              /\ endpoint'[websocket] = "closed"
              /\ websocket \notin Listed(connections))
             => connections' = connections]_vars


(***************************************************************************)
(* C22. Handling a chat_query changes neither the project's status, nor a  *)
(* slide row or its status, nor the connection registry, whether the       *)
(* project's row is found or not: every step from the receipt of the       *)
(* message to the end of handle_chat_query leaves them as they were.       *)
(***************************************************************************)
C22_ChatQueryChangesNothingStored ==
    [][(pc = "chat_query" \/ pc' = "chat_query")
       => /\ project_status' = project_status
          /\ slides' = slides
          /\ other_slides' = other_slides
          /\ deck' = deck
          /\ connections' = connections]_vars

\* a chat query has been answered after a completed analysis: the slides,
\* the status and the registration are those the analysis left
C22_Witness ==
    /\ pc = "receive"
    /\ events = <<Event("chat_response", "", 0, 0, "", "", <<>>)>>
    /\ slides = analysed_slides
    /\ project_status = "waiting_for_user"
    /\ connections = connect(NoConnections, connects, ProjectId)

(***************************************************************************)
(* C23. When the client goes away while the initial analysis runs, the     *)
(* analysis still runs to its end: unless a step of its own fails, the     *)
(* slides are stored, the deck is generated and the project's status is    *)
(* waiting_for_user when it returns.  A send to the dead connection does   *)
(* not abort it.                                                           *)
(***************************************************************************)
AnalysisRunning ==
    pc \in {"connected", "analyze", "analysis_generate", "analysis_finish",
            "analysis_send"}

Sent(type, message) ==
    \E k \in 1..Len(events) : events[k].type = type /\ events[k].message = message

AnalysisReturned ==
    /\ pc = "receive"
    /\ ~Sent("error", "Analysis failed")
       => /\ Len(slides) = NumSlides
          /\ project_status = "waiting_for_user"
          /\ ~Sent("error", "PowerPoint generation failed") => deck.saved

C23_AnalysisOutlivesItsClient == (AnalysisRunning /\ ClientGone) ~> AnalysisReturned

\* an analysis has returned with everything done although a send of it found
\* the connection dead and removed it from the registry
C23_Witness ==
    /\ pc = "receive"
    /\ ClientGone
    /\ connections = NoConnections
    /\ ~Sent("error", "Analysis failed")
    /\ ~Sent("error", "PowerPoint generation failed")
    /\ slides = analysed_slides
    /\ deck.saved
    /\ project_status = "waiting_for_user"


(***************************************************************************)
(* _calculate_metric_value_with_filters on its own: any dataset, any       *)
(* aggregation name, any list of well-formed filter predicates (a field,   *)
(* one of the six operators or none, a scalar value).                      *)
(***************************************************************************)
MaxFilters == 2

AbsentColumn == "Region"

FilterPredicates ==
    {Filter(FilterColumn, "==", Num(1)),
     Filter(FilterColumn, NoKeyStr, Num(1)),
     Filter(FilterColumn, "!=", Num(1)),
     Filter(MetricColumn, ">=", Num(1000)),
     Filter(MetricColumn, "<", Num(1000)),
     Filter(AbsentColumn, "==", Num(1))}

FilterLists == SeqsUpTo(FilterPredicates, MaxFilters)

\* the names the code tells apart, and one it does not know
Aggregations == {"sum", "average", "mean", "count", "max", "min", "median"}

InitMetric ==
    /\ InitTable
    /\ table_attr = "count"

CalculateMetricValue ==
    /\ ~calculated.called
    /\ \E aggregation \in Aggregations, filters \in FilterLists :
          calculated' =
              [metric_field |-> MetricColumn, aggregation |-> aggregation,
               filters |-> filters,
               value |-> calculate_metric_value_with_filters(data_df, MetricColumn,
                                                             aggregation, filters),
               called |-> TRUE]
    /\ UNCHANGED <<data_df, table_attr, fields, table, raised, built>>
    /\ UNCHANGED agentVars
    /\ UNCHANGED managerVars

NextMetric == CalculateMetricValue

SpecMetric == InitMetric /\ [][NextMetric]_vars

(***************************************************************************)
(* C26. For a leaf row, the value of a metric field is the row's           *)
(* aggregation (sum, average or mean, count, max, min; any other name as   *)
(* sum) of that column's values over exactly the dataset rows that satisfy *)
(* all of the row's filter predicates.  A predicate without an operator    *)
(* means equality, and the order of the predicates does not change the     *)
(* value.  (A predicate on a field the dataset lacks is satisfied by every *)
(* row; an empty cell satisfies only !=, and is no value of the column.)   *)
(***************************************************************************)
Satisfies(row, columns, predicate) ==
    IF predicate.field \notin columns THEN TRUE
    ELSE IF row[predicate.field] = NULL THEN predicate.operator = "!="
    ELSE LET cell == row[predicate.field].v
             value == predicate.value.v
         IN  \/ predicate.operator \in {"==", NoKeyStr} /\ cell = value
             \/ predicate.operator = "!=" /\ cell # value
             \/ predicate.operator = ">" /\ cell > value
             \/ predicate.operator = "<" /\ cell < value
             \/ predicate.operator = ">=" /\ (cell > value \/ cell = value)
             \/ predicate.operator = "<=" /\ (cell < value \/ cell = value)

\* the indices of the dataset rows that satisfy every predicate and have a
\* value in the column
SatisfyingRows(df, metric_field, filters) ==
    {i \in 1..Len(df.rows) :
        /\ df.rows[i][metric_field] # NULL
        /\ \A k \in 1..Len(filters) : Satisfies(df.rows[i], df.columns, filters[k])}

RECURSIVE SumOver(_, _, _)
SumOver(df, metric_field, rows) ==
    IF rows = {} THEN 0
    ELSE LET i == CHOOSE i \in rows : TRUE
         IN  df.rows[i][metric_field].v + SumOver(df, metric_field, rows \ {i})

\* value is the aggregation of the column over rows: the number num/den
IsAggregateOver(value, aggregation, df, metric_field, rows) ==
    LET total == SumOver(df, metric_field, rows)
        values == {df.rows[i][metric_field].v : i \in rows}
        IsNumber(n) == value.kind # "nan" /\ value.num = n * value.den
    IN  CASE aggregation \in {"average", "mean"} ->
                 IF rows = {} THEN value.kind = "nan"
                 ELSE value.kind # "nan"
                      /\ value.num * Cardinality(rows) = total * value.den
          [] aggregation = "count" -> IsNumber(Cardinality(rows))
          [] aggregation = "max" ->
                 IF rows = {} THEN value.kind = "nan"
                 ELSE \E v \in values : IsNumber(v) /\ \A w \in values : w <= v
          [] aggregation = "min" ->
                 IF rows = {} THEN value.kind = "nan"
                 ELSE \E v \in values : IsNumber(v) /\ \A w \in values : v <= w
          [] OTHER -> IsNumber(total)

WithOperators(filters) ==
    [k \in 1..Len(filters) |->
        IF filters[k].operator = NoKeyStr THEN [filters[k] EXCEPT !.operator = "=="]
        ELSE filters[k]]

C26_ValueAggregatesSatisfyingRows ==
    calculated.called
    => /\ IsAggregateOver(calculated.value, calculated.aggregation, data_df,
                          calculated.metric_field,
                          SatisfyingRows(data_df, calculated.metric_field,
                                         calculated.filters))
       /\ calculated.value
            = calculate_metric_value_with_filters(data_df, calculated.metric_field,
                                                  calculated.aggregation,
                                                  WithOperators(calculated.filters))
       /\ calculated.value
            = calculate_metric_value_with_filters(data_df, calculated.metric_field,
                                                  calculated.aggregation,
                                                  Reverse(calculated.filters))

\* the mean over the one row of three that passes an operator-less predicate
\* and a >= predicate at its boundary
C26_Witness ==
    /\ calculated.called
    /\ calculated.aggregation = "mean"
    /\ calculated.filters = <<Filter(MetricColumn, ">=", Num(1000)),
                              Filter(FilterColumn, NoKeyStr, Num(1))>>
    /\ Len(data_df.rows) = 2
    /\ SatisfyingRows(data_df, MetricColumn, calculated.filters) = {1}
    /\ calculated.value = FloatVal(1000, 1)

=============================================================================
